---- MODULE Spec2Model ----
(***************************************************************************)
(* Streaming anomaly-detection pipeline of the log analysis tool.          *)
(*                                                                         *)
(* The driver loop of main() reads one line at a time, parses it and feeds *)
(* every parsed entry to the analyzers and detectors; at end of stream it  *)
(* runs the end-of-stream reviews and freezes the report.                  *)
(*                                                                         *)
(* Time points are whole seconds since the Unix epoch (time_t); a          *)
(* default-constructed TimePoint is 0.  A line of text is modelled at      *)
(* token granularity: leading white space, a sequence of tokens separated  *)
(* by single blanks, and an optional trailing carriage return.             *)
(***************************************************************************)
EXTENDS Integers, Sequences, FiniteSets, TLC

(***************************************************************************)
(* Bounds of the model                                                     *)
(***************************************************************************)
MaxLines == 5
MaxBurstLines == 27
MaxIpLines == 12
MaxIpMixed == 6
MaxSilenceLines == 4
MaxPrefix == 2
MaxMalformed == 1
MaxBlank == 1
MaxIndeterminate == 1
MaxParseLines == 2
MaxPatterns == 5
MaxReportLines == 3
MaxWindowLines == 4
MaxWindowSizeLines == 2
MaxSpikeOld == 15
MaxSpikeLines == 21
MaxStatLines == 21
MaxPatternLines == 4
MaxSequenceLines == 5
MaxEvictionLines == 4
MaxRules == 3
MaxRuleLines == 2
CacheEntries == 1
QuietLines == 8

(***************************************************************************)
(* Program constants (defaults of the detectors; main() never overrides    *)
(* them because ConfigLoader is default-constructed)                       *)
(***************************************************************************)
m_windowSize == 60
m_errorRateThresholdNum == 1
m_errorRateThresholdDen == 2
m_burstThreshold == 100
m_silenceThreshold == 300
m_maxHistoryWindows == 12
m_window == 60
m_minRepeats == 20
m_maxSamples == 5
m_maxCountForRare == 5

(***************************************************************************)
(* Small helpers                                                           *)
(***************************************************************************)
None == [ok |-> FALSE]
Some(x) == [ok |-> TRUE, v |-> x]

Min(a, b) == IF a <= b THEN a ELSE b
Max(a, b) == IF a >= b THEN a ELSE b

Get(f, k, default) == IF k \in DOMAIN f THEN f[k] ELSE default
Put(f, k, x) == [j \in (DOMAIN f) \cup {k} |-> IF j = k THEN x ELSE f[j]]

(***************************************************************************)
(* core::LogLevel, core::AnomalyType, core::AnomalySeverity                *)
(***************************************************************************)
LogLevel == {"Trace", "Debug", "Info", "Warn", "Error", "Critical", "Unknown"}

LevelOrdinal(l) ==
  CASE l = "Trace" -> 0 [] l = "Debug" -> 1 [] l = "Info" -> 2
    [] l = "Warn" -> 3 [] l = "Error" -> 4 [] l = "Critical" -> 5
    [] OTHER -> 6

AnomalyType == {"FrequencySpike", "RarePattern", "StatisticalOutlier",
                "SequenceViolation", "Silence", "Other"}

SeverityRank(s) ==
  CASE s = "Low" -> 0 [] s = "Medium" -> 1 [] s = "High" -> 2 [] OTHER -> 3

isErrorLike(l) == l \in {"Error", "Critical"}

(***************************************************************************)
(* Scores are doubles in the program; the model keeps them as exact        *)
(* fractions num/den with den > 0.                                         *)
(***************************************************************************)
Frac(n, d) == [num |-> n, den |-> d]
FracGeq(a, b) == a.num * b.den >= b.num * a.den
FracGt(a, b) == a.num * b.den > b.num * a.den
FracMin1(a) == IF a.num >= a.den THEN Frac(1, 1) ELSE a

(***************************************************************************)
(* Text of the input.  A line is [lead, toks, cr]: lead white-space        *)
(* characters, the tokens, and whether a carriage return ends it           *)
(* (std::getline keeps the '\r' of a CRLF file).  A JSON line is the token *)
(* "{" followed by key, value, key, value, ...                             *)
(***************************************************************************)
Line(lead, toks, cr) == [lead |-> lead, toks |-> toks, cr |-> cr]

\* line.empty() of std::string: no character at all
lineEmpty(line) == line.lead = 0 /\ line.toks = <<>> /\ ~line.cr

\* trimSv: the white space at both ends goes, the tokens stay
trimSv(line) == line.toks

\* Utils::parseTimestamp on the first 19 characters: six digit fields read
\* at fixed offsets (the separators are not looked at), then mktime
parseTimestamp(tok) ==
  CASE tok = "1999-12-31 23:59:59" -> Some(946684799)
    [] tok = "2000-01-01 00:00:30" -> Some(946684830)
    [] tok = "2000-01-01T00:00:30" -> Some(946684830)
    [] tok = "2024-01-01 00:00:00" -> Some(1704067200)
    [] tok = "2024-01-01T00:00:00" -> Some(1704067200)
    [] tok = "2024-01-01 00:00:30" -> Some(1704067230)
    [] tok = "2024-01-01 00:01:00" -> Some(1704067260)
    [] tok = "2024-01-01 00:01:30" -> Some(1704067290)
    [] tok = "2024-01-01 00:05:01" -> Some(1704067501)
    [] tok = "2024-01-01 00:06:00" -> Some(1704067560)
    [] tok = "2024-01-01 00:10:00" -> Some(1704067800)
    [] tok = "2024-01-01 00:12:00" -> Some(1704067920)
    [] tok = "2024-01-01 00:13:00" -> Some(1704067980)
    [] tok = "2024-01-01 00:15:00" -> Some(1704068100)
    [] tok = "2024-01-01 00:30:00" -> Some(1704069000)
    [] tok = "2024-01-01 00:45:00" -> Some(1704069900)
    [] tok = "2024-01-01 01:00:00" -> Some(1704070800)
    [] tok = "2024-01-01 01:15:00" -> Some(1704071700)
    [] tok = "2024-01-01 01:30:00" -> Some(1704072600)
    [] tok = "2024-01-01 01:45:00" -> Some(1704073500)
    [] tok = "2024-01-01 02:00:00" -> Some(1704074400)
    [] tok = "2024-01-01 02:15:00" -> Some(1704075300)
    [] tok = "2024-01-01 02:30:00" -> Some(1704076200)
    [] tok = "2024-01-01 02:45:00" -> Some(1704077100)
    [] tok = "2024-01-01 03:00:00" -> Some(1704078000)
    [] OTHER -> None

\* the level words that Utils::contains finds in the upper-cased token
levelWordsIn(tok) ==
  CASE tok \in {"TRACE", "trace"} -> {"TRACE"}
    [] tok \in {"DEBUG", "debug"} -> {"DEBUG"}
    [] tok \in {"INFO", "info"} -> {"INFO"}
    [] tok \in {"WARN", "warn"} -> {"WARN"}
    [] tok \in {"WARNING", "warning"} -> {"WARN", "WARNING"}
    [] tok \in {"ERROR", "error"} -> {"ERROR"}
    [] tok \in {"FATAL", "fatal"} -> {"FATAL"}
    [] tok \in {"CRITICAL", "critical"} -> {"CRITICAL"}
    [] OTHER -> {}

levelMap ==
  << <<"TRACE", "Trace">>, <<"DEBUG", "Debug">>, <<"INFO", "Info">>,
     <<"WARN", "Warn">>, <<"WARNING", "Warn">>, <<"ERROR", "Error">>,
     <<"FATAL", "Critical">>, <<"CRITICAL", "Critical">> >>

\* isReasonableTime of LogParser.cpp: not before 2000-01-01 00:00:00 UTC.
\* No function of the parser calls it.
isReasonableTime(tp) == tp >= 946684800

\* LogParser::extractTimestamp: the first 19 characters of the line
extractTimestamp(toks) ==
  IF toks = <<>> THEN None ELSE parseTimestamp(toks[1])

\* LogParser::extractLevel: the first entry of levelMap, in map order, whose
\* word occurs anywhere in the upper-cased line; Unknown when none does
extractLevel(toks) ==
  LET words == UNION {levelWordsIn(toks[i]) : i \in 1..Len(toks)}
      hits == {k \in 1..Len(levelMap) : levelMap[k][1] \in words}
  IN IF hits = {} THEN Some("Unknown")
     ELSE Some(levelMap[CHOOSE k \in hits : \A j \in hits : k <= j][2])

\* the text of a token before its first ':' when that text has no blank
\* (a date-time token "YYYY-MM-DD HH:MM:SS" has a blank before its colon)
beforeColon(tok) ==
  CASE tok = "2024-01-01T00:00:00" -> Some("2024-01-01T00")
    [] tok = "2000-01-01T00:00:30" -> Some("2000-01-01T00")
    [] tok = "svc1:" -> Some("svc1")
    [] tok = "svc2:" -> Some("svc2")
    [] tok = "db:" -> Some("db")
    [] OTHER -> None

hasColon(tok) == beforeColon(tok).ok \/ parseTimestamp(tok).ok

\* the text between '[' and ']' of a bracketed token
bracketed(tok) ==
  CASE tok = "[auth]" -> Some("auth")
    [] OTHER -> None

\* LogParser::extractSource: the text before the first ':' of the line when
\* it holds no blank, else the text between the first '[' and ']'
extractSource(toks) ==
  LET colons == {i \in 1..Len(toks) : hasColon(toks[i])}
      c == CHOOSE i \in colons : \A j \in colons : i <= j
      brs == {i \in 1..Len(toks) : bracketed(toks[i]).ok}
      b == CHOOSE i \in brs : \A j \in brs : i <= j
  IN IF colons # {} /\ c = 1 /\ beforeColon(toks[1]).ok
       THEN beforeColon(toks[1])
     ELSE IF brs # {} THEN bracketed(toks[b])
     ELSE None

\* LogParser::extractMessage: drop the first 20 characters (the date-time and
\* its blank), split the rest at blanks and keep the words after the first two
extractMessage(toks) ==
  IF Len(toks) > 3 THEN Some(SubSeq(toks, 4, Len(toks))) ELSE None

LogEntry(ts, level, source, message, rawLine) ==
  [timestamp |-> ts, level |-> level, source |-> source,
   message |-> message, rawLine |-> rawLine]

\* a parser that keeps only the message as the entry's raw line
tryParsePatternRawMessage(toks) ==
  LET timestamp == extractTimestamp(toks)
      level == extractLevel(toks)
      source == extractSource(toks)
      message == extractMessage(toks)
  IN IF ~timestamp.ok \/ ~level.ok \/ ~message.ok THEN None
     ELSE Some(LogEntry(timestamp.v, level.v,
                        IF source.ok THEN source.v ELSE "unknown",
                        message.v, message.v))

\* LogParser::tryParsePattern (the pattern argument is unused)
tryParsePattern(toks) ==
  LET timestamp == extractTimestamp(toks)
      level == extractLevel(toks)
      source == extractSource(toks)
      message == extractMessage(toks)
  IN IF ~timestamp.ok \/ ~level.ok \/ ~message.ok THEN None
     ELSE Some(LogEntry(timestamp.v, level.v,
                        IF source.ok THEN source.v ELSE "unknown",
                        message.v, toks))

\* LogParser::extractJsonRaw: the first place the quoted key occurs (as a key
\* or as a value), then the value after the next ':'
extractJsonString(toks, key) ==
  LET at == {i \in 2..Len(toks) : toks[i] = key}
      i == CHOOSE k \in at : \A j \in at : k <= j
      v == IF i % 2 = 0 THEN i + 1 ELSE i + 2
  IN IF at = {} \/ v > Len(toks) THEN None ELSE Some(toks[v])

firstOf(toks, keys) ==
  LET found == {k \in 1..Len(keys) : extractJsonString(toks, keys[k]).ok}
  IN IF found = {} THEN None
     ELSE extractJsonString(toks, keys[CHOOSE k \in found : \A j \in found : k <= j])

jsonLevel(tok) ==
  CASE tok \in {"TRACE", "trace"} -> "Trace"
    [] tok \in {"DEBUG", "debug"} -> "Debug"
    [] tok \in {"INFO", "info"} -> "Info"
    [] tok \in {"WARN", "warn", "WARNING", "warning"} -> "Warn"
    [] tok \in {"ERROR", "error"} -> "Error"
    [] tok \in {"CRITICAL", "critical", "FATAL", "fatal"} -> "Critical"
    [] OTHER -> "Unknown"

\* the message of a JSON line: the words of the value, none for the value ""
jsonMessage(value) == IF value = "" THEN <<>> ELSE <<value>>

\* LogParser::tryParseJsonLine
tryParseJsonLine(toks) ==
  LET tsStr == firstOf(toks, <<"timestamp", "time", "@timestamp">>)
      lvlStr == firstOf(toks, <<"level", "severity">>)
      msgStr == firstOf(toks, <<"message", "msg">>)
      srcStr == firstOf(toks, <<"service", "component", "source">>)
  IN IF ~tsStr.ok \/ ~lvlStr.ok \/ ~msgStr.ok
       THEN [entry |-> None, error |-> "JSON missing required fields"]
     ELSE IF ~parseTimestamp(tsStr.v).ok
       THEN [entry |-> None, error |-> "Invalid timestamp format"]
     ELSE [entry |-> Some(LogEntry(parseTimestamp(tsStr.v).v, jsonLevel(lvlStr.v),
                                   IF srcStr.ok THEN srcStr.v ELSE "unknown",
                                   jsonMessage(msgStr.v), toks)),
           error |-> ""]

\* the patterns the constructor of LogParser configures
LogParser ==
  [m_patterns |-> <<"%timestamp% %level% %source%: %message%",
                    "%timestamp% %level% %source% %message%",
                    "\\[%timestamp%] %level%\\[%source%] %message%",
                    "%timestamp% %level% %message%">>]

\* LogParser::addPattern and LogParser::clearPatterns
addPattern(p, newPattern) == [p EXCEPT !.m_patterns = Append(@, newPattern)]
clearPatterns(p) == [p EXCEPT !.m_patterns = <<>>]

\* the loop "for (const auto &pattern : m_patterns)": the first pattern that
\* yields an entry ends it
firstMatch(m_patterns, trimmed) ==
  LET hits == {k \in 1..Len(m_patterns) : tryParsePattern(trimmed).ok}
  IN IF hits = {} THEN None ELSE tryParsePattern(trimmed)

\* LogParser::parseLineDetailed, called on a parser p
parseLineDetailedOn(p, rawLine) ==
  LET trimmed == trimSv(rawLine)
  IN IF trimmed = <<>>
       THEN [entry |-> None, malformed |-> TRUE, wasJson |-> FALSE,
             error |-> "Empty line"]
     ELSE IF Head(trimmed) = "{"
       THEN LET e == tryParseJsonLine(trimmed)
            IN [entry |-> e.entry, malformed |-> ~e.entry.ok, wasJson |-> TRUE,
                error |-> e.error]
     ELSE LET e == firstMatch(p.m_patterns, trimmed)
          IN [entry |-> e, malformed |-> ~e.ok, wasJson |-> FALSE,
              error |-> IF e.ok THEN "" ELSE "No matching pattern"]

\* LogParser::parseLine
parseLineOn(p, rawLine) == parseLineDetailedOn(p, rawLine).entry

VARIABLE parser   \* Input::LogParser parser

\* "parser.parseLineDetailed(line)" of main()
parseLineDetailed(rawLine) == parseLineDetailedOn(parser, rawLine)

(***************************************************************************)
(* BurstPatternDetector                                                    *)
(***************************************************************************)
\* what normalizeMessage makes of one token: lower case, a run of 8 or more
\* hex digits becomes <id>, a bare integer becomes <n>
normalizeToken(tok) ==
  CASE tok \in {"deadbeef01", "12345678"} -> "<id>"
    [] tok \in {"42", "7"} -> "<n>"
    [] tok \in {"10.0.0.7", "10.0.0.1"} -> "<n>.<n>.<n>.<n>"
    [] tok = "Timeout" -> "timeout"
    [] OTHER -> tok

\* BurstPatternDetector::normalizeMessage
normalizeMessage(msg) == [i \in 1..Len(msg) |-> normalizeToken(msg[i])]

\* BurstPatternDetector::signature
signature(e) == <<e.source, LevelOrdinal(e.level), normalizeMessage(e.message)>>

\* BurstPatternDetector::evictOld
RECURSIVE evictOld(_, _)
evictOld(events, now) ==
  IF events = <<>> THEN events
  ELSE IF now - Head(events).first <= m_window THEN events
  ELSE evictOld(Tail(events), now)

LastN(s, n) == IF Len(s) > n THEN SubSeq(s, Len(s) - n + 1, Len(s)) ELSE s

\* the truncation after an emission
burstTruncate(events) ==
  IF Len(events) > m_minRepeats
    THEN LastN(events, Max(1, m_minRepeats \div 2))
    ELSE events

\* a detector that keeps every event inside the window after an emission
burstProcessEntryKeepsAll(states, entry) ==
  LET now == entry.timestamp
      key == signature(entry)
      added == Append(Get(states, key, <<>>), [first |-> now, second |-> entry])
      kept == evictOld(added, now)
      c == Len(kept)
      b == [key |-> key, level |-> entry.level, source |-> entry.source,
            windowStart |-> kept[1].first, windowEnd |-> kept[c].first,
            score |-> c,
            description |-> [text |-> "Burst repetition detected", args |-> <<c, m_window>>],
            samples |-> [i \in 1..Len(LastN(kept, m_maxSamples)) |->
                           LastN(kept, m_maxSamples)[i].second]]
  IN [states |-> Put(states, key, kept),
      out |-> IF c >= m_minRepeats THEN <<b>> ELSE <<>>]

\* BurstPatternDetector::processEntry: the new m_states and the returned vector
burstProcessEntry(states, entry) ==
  LET now == entry.timestamp
      key == signature(entry)
      added == Append(Get(states, key, <<>>), [first |-> now, second |-> entry])
      kept == evictOld(added, now)
      c == Len(kept)
      b == [key |-> key, level |-> entry.level, source |-> entry.source,
            windowStart |-> kept[1].first, windowEnd |-> kept[c].first,
            score |-> c,
            description |-> [text |-> "Burst repetition detected", args |-> <<c, m_window>>],
            samples |-> [i \in 1..Len(LastN(kept, m_maxSamples)) |->
                           LastN(kept, m_maxSamples)[i].second]]
  IN IF c >= m_minRepeats
       THEN [states |-> Put(states, key, burstTruncate(kept)), out |-> <<b>>]
       ELSE [states |-> Put(states, key, kept), out |-> <<>>]

(***************************************************************************)
(* IpFrequencyDetector                                                     *)
(***************************************************************************)
\* the IPv4 address the regex finds in a token
ipIn(tok) ==
  CASE tok = "10.0.0.7" -> Some("10.0.0.7")
    [] tok = "10.0.0.1" -> Some("10.0.0.1")
    [] OTHER -> None

\* IpFrequencyDetector::extractIp: the leftmost match in the message
extractIp(message) ==
  LET at == {i \in 1..Len(message) : ipIn(message[i]).ok}
  IN IF at = {} THEN None
     ELSE ipIn(message[CHOOSE i \in at : \A j \in at : i <= j])

\* a cutoff that leaves out the count equal to it
ipIsRareBelowCutoff(newCount) == newCount < m_maxCountForRare

\* the test that makes an address "rare" after its counter was incremented
ipIsRare(newCount) == newCount <= m_maxCountForRare

\* a detector that tests the counter as it was before the increment
ipProcessEntryCountBefore(counts, entry) ==
  LET ip == extractIp(entry.message)
      oldCount == Get(counts, ip.v, 0)
  IN IF ~ip.ok THEN [counts |-> counts, out |-> <<>>]
     ELSE [counts |-> Put(counts, ip.v, oldCount + 1),
           out |-> IF ipIsRare(oldCount)
                     THEN << [ip |-> ip.v, count |-> oldCount + 1, entry |-> entry] >>
                     ELSE <<>>]

\* IpFrequencyDetector::processEntry: the new m_counts and the returned vector
ipProcessEntry(counts, entry) ==
  LET ip == extractIp(entry.message)
      newCount == Get(counts, ip.v, 0) + 1
  IN IF ~ip.ok THEN [counts |-> counts, out |-> <<>>]
     ELSE [counts |-> Put(counts, ip.v, newCount),
           out |-> IF ipIsRare(newCount)
                     THEN << [ip |-> ip.v, count |-> newCount, entry |-> entry] >>
                     ELSE <<>>]

(***************************************************************************)
(* TimeWindowAnalyzer                                                      *)
(***************************************************************************)
EmptyMap == [x \in {} |-> 0]

TimeBucket(start, end) ==
  [start |-> start, end |-> end, events |-> <<>>, sourceCounts |-> EmptyMap]

\* the analyzer after its constructor
TimeWindowAnalyzer ==
  [m_initialized |-> FALSE, m_currentWindow |-> TimeBucket(0, 0),
   m_windowHistory |-> <<>>, m_windowSize |-> m_windowSize]

\* TimeWindowAnalyzer::setWindowSize
setWindowSize(tw, size) ==
  [tw EXCEPT !.m_windowSize = size,
             !.m_currentWindow.end = IF tw.m_initialized
                                       THEN tw.m_currentWindow.start + size ELSE @]

\* a history that is never cut
pushHistoryUnbounded(history, bucket) == Append(history, bucket)

\* the history after push_back and the pop_front that keeps it bounded
pushHistory(history, bucket) ==
  LET pushed == Append(history, bucket)
  IN IF Len(pushed) > m_maxHistoryWindows THEN Tail(pushed) ELSE pushed

\* a loop that saves the current window and then opens the window ts lies
\* in, without saving the empty windows between the two
advanceToSkipsEmpty(tw, ts) ==
  IF ts >= tw.m_currentWindow.end
    THEN LET start == tw.m_currentWindow.end
                        + ((ts - tw.m_currentWindow.end) \div tw.m_windowSize)
                            * tw.m_windowSize
         IN [tw EXCEPT
               !.m_windowHistory = pushHistory(tw.m_windowHistory, tw.m_currentWindow),
               !.m_currentWindow = TimeBucket(start, start + tw.m_windowSize)]
    ELSE tw

\* the loop "while (ts >= m_currentWindow.end)" of addEventUnlocked
RECURSIVE advanceTo(_, _)
advanceTo(tw, ts) ==
  IF ts >= tw.m_currentWindow.end
    THEN advanceTo([tw EXCEPT
           !.m_windowHistory = pushHistory(tw.m_windowHistory, tw.m_currentWindow),
           !.m_currentWindow = TimeBucket(tw.m_currentWindow.end,
                                          tw.m_currentWindow.end + tw.m_windowSize)], ts)
    ELSE tw

\* TimeWindowAnalyzer::evictOldEvents
RECURSIVE evictOldEvents(_)
evictOldEvents(bucket) ==
  IF bucket.events # <<>> /\ Head(bucket.events).timestamp < bucket.start
    THEN LET src == Head(bucket.events).source
             n == Get(bucket.sourceCounts, src, 0) - 1
         IN evictOldEvents([bucket EXCEPT
              !.events = Tail(bucket.events),
              !.sourceCounts = IF n = 0
                                 THEN [k \in (DOMAIN bucket.sourceCounts) \ {src} |->
                                         bucket.sourceCounts[k]]
                                 ELSE Put(bucket.sourceCounts, src, n)])
    ELSE bucket

\* the first statement of addEventUnlocked: the first entry places the window
initialized(tw, ts) ==
  IF tw.m_initialized THEN tw
  ELSE [tw EXCEPT !.m_currentWindow.start = ts,
                  !.m_currentWindow.end = ts + tw.m_windowSize,
                  !.m_initialized = TRUE]

\* the loop "while (ts >= m_currentWindow.end)" never ends: a step of no
\* seconds leaves m_currentWindow.end where it is
spins(tw, entry) ==
  /\ tw.m_windowSize = 0
  /\ entry.timestamp >= initialized(tw, entry.timestamp).m_currentWindow.end

\* an analyzer that keeps a late entry in the current bucket
addEventUnlockedKeepsLate(tw, entry) ==
  LET ts == entry.timestamp
      moved == advanceTo(initialized(tw, ts), ts)
      cur == moved.m_currentWindow
      timedEvent == [timestamp |-> ts, level |-> entry.level, source |-> entry.source]
  IN [moved EXCEPT !.m_currentWindow =
        [cur EXCEPT !.events = Append(cur.events, timedEvent),
                    !.sourceCounts = Put(cur.sourceCounts, entry.source,
                                         Get(cur.sourceCounts, entry.source, 0) + 1)]]

\* TimeWindowAnalyzer::addEventUnlocked (addEntry takes the lock and calls it)
addEventUnlocked(tw, entry) ==
  LET ts == entry.timestamp
      started == initialized(tw, ts)
      moved == advanceTo(started, ts)
      cur == moved.m_currentWindow
      timedEvent == [timestamp |-> ts, level |-> entry.level, source |-> entry.source]
      filled == [cur EXCEPT
                   !.events = Append(cur.events, timedEvent),
                   !.sourceCounts = Put(cur.sourceCounts, entry.source,
                                        Get(cur.sourceCounts, entry.source, 0) + 1)]
  IN IF ts < cur.start THEN moved
     ELSE [moved EXCEPT !.m_currentWindow = evictOldEvents(filled)]

WindowStats ==
  [totalEvents |-> 0, errorEvents |-> 0, errorRate |-> Frac(0, 1),
   eventsBySource |-> EmptyMap, windowStart |-> 0, windowEnd |-> 0]

\* TimeWindowAnalyzer::calculateStats
calculateStats(bucket) ==
  LET total == Len(bucket.events)
      errorCount == Cardinality({i \in 1..total : isErrorLike(bucket.events[i].level)})
  IN [totalEvents |-> total, errorEvents |-> errorCount,
      errorRate |-> IF total > 0 THEN Frac(errorCount, total) ELSE Frac(0, 1),
      eventsBySource |-> bucket.sourceCounts,
      windowStart |-> bucket.start, windowEnd |-> bucket.end]

\* "Anomaly anomaly;" of the three checks: description and stats are
\* default-constructed, score has no initializer.  assigned tells whether
\* the check wrote score; when it did not, the caller reads an indeterminate
\* double.
UnsetAnomaly ==
  [assigned |-> FALSE, score |-> Frac(0, 1),
   description |-> [text |-> "", args |-> <<>>], stats |-> WindowStats]

\* the comparison stats.errorRate > m_errorRateThreshold
errorRateExceeds(stats) ==
  FracGt(stats.errorRate, Frac(m_errorRateThresholdNum, m_errorRateThresholdDen))

\* TimeWindowAnalyzer::checkErrorSpike
checkErrorSpike(bucket) ==
  LET stats == calculateStats(bucket)
  IN IF errorRateExceeds(stats)
       THEN [assigned |-> TRUE,
             score |-> FracMin1(Frac(2 * stats.errorRate.num, stats.errorRate.den)),
             description |-> [text |-> "Error spike",
                              args |-> <<stats.errorEvents, stats.totalEvents,
                                         stats.windowStart, stats.windowEnd>>],
             stats |-> stats]
       ELSE UnsetAnomaly

\* TimeWindowAnalyzer::checkBurst
checkBurst(bucket) ==
  LET stats == calculateStats(bucket)
  IN IF stats.totalEvents > m_burstThreshold
       THEN [assigned |-> TRUE,
             score |-> FracMin1(Frac(stats.totalEvents, m_burstThreshold)),
             description |-> [text |-> "Event burst",
                              args |-> <<stats.totalEvents, m_windowSize>>],
             stats |-> stats]
       ELSE UnsetAnomaly

\* Utils::diffSeconds
diffSeconds(start, end) == end - start

\* TimeWindowAnalyzer::checkSilence
checkSilence(tw, bucket) ==
  LET prevEnd == tw.m_windowHistory[Len(tw.m_windowHistory)].end
      gap == diffSeconds(prevEnd, bucket.start)
  IN IF tw.m_windowHistory # <<>> /\ gap > m_silenceThreshold
       THEN [assigned |-> TRUE,
             score |-> FracMin1(Frac(gap, m_silenceThreshold)),
             description |-> [text |-> "Silence detected", args |-> <<gap>>],
             stats |-> WindowStats]
       ELSE UnsetAnomaly

\* a review of the current window and the newest history window only
twChecksNewestOnly(tw) ==
  LET cur == <<checkErrorSpike(tw.m_currentWindow), checkBurst(tw.m_currentWindow)>>
      hist == IF tw.m_windowHistory = <<>> THEN <<>>
              ELSE <<checkErrorSpike(tw.m_windowHistory[Len(tw.m_windowHistory)]),
                     checkBurst(tw.m_windowHistory[Len(tw.m_windowHistory)])>>
      sil == IF tw.m_windowHistory # <<>>
               THEN <<checkSilence(tw, tw.m_currentWindow)>> ELSE <<>>
  IN cur \o hist \o sil

\* the checks detectAnomalies makes, in its order: the current window, then
\* every history window oldest first, then the silence check
twChecks(tw) ==
  LET cur == <<checkErrorSpike(tw.m_currentWindow), checkBurst(tw.m_currentWindow)>>
      hist == [i \in 1..(2 * Len(tw.m_windowHistory)) |->
                 IF i % 2 = 1 THEN checkErrorSpike(tw.m_windowHistory[(i + 1) \div 2])
                 ELSE checkBurst(tw.m_windowHistory[i \div 2])]
      sil == IF tw.m_windowHistory # <<>>
               THEN <<checkSilence(tw, tw.m_currentWindow)>> ELSE <<>>
  IN cur \o hist \o sil

\* TimeWindowAnalyzer::detectAnomalies: every check whose score reads > 0.0 is
\* pushed.  ind[i] is the value the i-th check's score holds when the check did
\* not assign it.
detectAnomalies(tw, ind) ==
  LET checks == twChecks(tw)
      seen == [i \in 1..Len(checks) |->
                 IF checks[i].assigned THEN checks[i]
                 ELSE [checks[i] EXCEPT !.score = ind[i]]]
      Positive(a) == a.score.num > 0
  IN SelectSeq(seen, Positive)

\* the values an unassigned score may hold that matter to the caller:
\* not above zero, or above zero in the Low or in the High band of main()
IndeterminatePositive == {Frac(1, 2), Frac(1, 1)}

RECURSIVE subsetsUpTo(_, _)
subsetsUpTo(n, k) ==
  IF k = 0 THEN {{}}
  ELSE LET prev == subsetsUpTo(n, k - 1)
       IN prev \cup {S \cup {i} : S \in prev, i \in 1..n}

\* the indeterminate reads of one detectAnomalies call: at most
\* MaxIndeterminate of its unassigned scores read above zero
Indeterminates(tw) ==
  LET n == Len(twChecks(tw))
  IN {[i \in 1..n |-> IF i \in S THEN val ELSE Frac(0, 1)] :
        S \in subsetsUpTo(n, MaxIndeterminate), val \in IndeterminatePositive}

(***************************************************************************)
(* Containers.  The analyzers keep std::unordered_map; the order in which  *)
(* such a map is iterated is fixed for a given build and content, and the  *)
(* model takes one fixed order.                                            *)
(***************************************************************************)
RECURSIVE iteration(_)
iteration(S) ==
  IF S = {} THEN <<>>
  ELSE LET x == CHOOSE y \in S : TRUE
       IN <<x>> \o iteration(S \ {x})

\* the sum of a sequence of numbers, by halves
RECURSIVE SumSeq(_)
SumSeq(s) ==
  IF Len(s) = 0 THEN 0
  ELSE IF Len(s) = 1 THEN s[1]
  ELSE SumSeq(SubSeq(s, 1, Len(s) \div 2))
         + SumSeq(SubSeq(s, Len(s) \div 2 + 1, Len(s)))

\* the loop "while (!dq.empty() && now - dq.front() > window) dq.pop_front();"
\* it stops at the first element that is recent enough
evictFront(dq, now, window) ==
  LET kept == {i \in 1..Len(dq) : now - dq[i] <= window}
  IN IF kept = {} THEN <<>>
     ELSE SubSeq(dq, CHOOSE i \in kept : \A j \in kept : i <= j, Len(dq))

(***************************************************************************)
(* FrequencyAnalyzer                                                       *)
(***************************************************************************)
m_messageHashLength == 3
m_spikeMultiplier == 3
m_minOccurrences == 2

\* toUpperCopy on one word
toUpperCopy(tok) ==
  CASE tok = "timeout" -> "TIMEOUT" [] tok = "Timeout" -> "TIMEOUT"
    [] tok = "login" -> "LOGIN" [] tok = "from" -> "FROM"
    [] tok = "cache" -> "CACHE" [] tok = "miss" -> "MISS"
    [] tok = "for" -> "FOR" [] tok = "user" -> "USER"
    [] tok = "error" -> "ERROR" [] tok = "info" -> "INFO"
    [] tok = "missing" -> "MISSING" [] tok = "db" -> "DB"
    [] tok = "disk" -> "DISK" [] tok = "full" -> "FULL"
    [] tok = "critical" -> "CRITICAL"
    [] OTHER -> tok

\* the analyzer after its constructor
FrequencyAnalyzer ==
  [m_sourceCounts |-> EmptyMap, m_levelCounts |-> EmptyMap,
   m_messageCounts |-> EmptyMap, m_sourceHistory |-> EmptyMap,
   m_sourceMovingAvg |-> EmptyMap]

\* FrequencyAnalyzer::hashMessage: the first words, upper-cased
hashMessage(message) ==
  IF message = <<>> THEN <<"EMPTY">>
  ELSE [i \in 1..Min(m_messageHashLength, Len(message)) |-> toUpperCopy(message[i])]

\* a history of the increments, one per entry, instead of the running counts
updateMovingAverageOfIncrements(fa, source) ==
  LET pushed == Append(Get(fa.m_sourceHistory, source, <<>>), 1)
      history == IF Len(pushed) > 10 THEN Tail(pushed) ELSE pushed
  IN [fa EXCEPT
        !.m_sourceHistory = Put(@, source, history),
        !.m_sourceMovingAvg = Put(@, source, Frac(SumSeq(history), Len(history)))]

\* FrequencyAnalyzer::updateMovingAverage
updateMovingAverage(fa, source) ==
  LET pushed == Append(Get(fa.m_sourceHistory, source, <<>>),
                       Get(fa.m_sourceCounts, source, 0))
      history == IF Len(pushed) > 10 THEN Tail(pushed) ELSE pushed
  IN [fa EXCEPT
        !.m_sourceHistory = Put(@, source, history),
        !.m_sourceMovingAvg = Put(@, source, Frac(SumSeq(history), Len(history)))]

\* FrequencyAnalyzer::updateUnlocked (addEntry takes the lock and calls it)
updateUnlocked(fa, entry) ==
  updateMovingAverage(
    [fa EXCEPT
       !.m_sourceCounts = Put(@, entry.source, Get(@, entry.source, 0) + 1),
       !.m_levelCounts = Put(@, entry.level, Get(@, entry.level, 0) + 1),
       !.m_messageCounts = Put(@, hashMessage(entry.message),
                               Get(@, hashMessage(entry.message), 0) + 1)],
    entry.source)

\* the test of the source-spike scan: count > average * m_spikeMultiplier
sourceSpikes(fa, source) ==
  /\ source \in DOMAIN fa.m_sourceMovingAvg
  /\ fa.m_sourceMovingAvg[source].num > 0
  /\ fa.m_sourceCounts[source] * fa.m_sourceMovingAvg[source].den
       > fa.m_sourceMovingAvg[source].num * m_spikeMultiplier

\* FrequencyAnalyzer::detectAnomalies: the source spikes, then the rare
\* message hashes
freqDetectAnomalies(fa) ==
  LET spikes == iteration({s \in DOMAIN fa.m_sourceCounts : sourceSpikes(fa, s)})
      rares == iteration({h \in DOMAIN fa.m_messageCounts :
                            fa.m_messageCounts[h] < m_minOccurrences})
  IN [i \in 1..Len(spikes) |->
        [text |-> "Source spike",
         args |-> <<spikes[i], fa.m_sourceCounts[spikes[i]]>>]]
     \o [i \in 1..Len(rares) |->
           [text |-> "Rare message pattern",
            args |-> <<rares[i], fa.m_messageCounts[rares[i]]>>]]

(***************************************************************************)
(* PatternAnalyzer                                                         *)
(***************************************************************************)
m_sequenceWindowSize == 10
m_maxPatternExamples == 3

\* the analyzer after its constructor
PatternAnalyzer ==
  [m_recentEvents |-> <<>>, m_patterns |-> EmptyMap, m_sequenceCounts |-> EmptyMap,
   m_sequenceWindowSize |-> m_sequenceWindowSize,
   m_maxPatternExamples |-> m_maxPatternExamples]

\* PatternAnalyzer::setSequenceWindowSize
setSequenceWindowSize(pa, size) == [pa EXCEPT !.m_sequenceWindowSize = size]

\* PatternAnalyzer::setMaxPatternExamples
setMaxPatternExamples(pa, count) == [pa EXCEPT !.m_maxPatternExamples = count]

\* PatternAnalyzer::createSignature: source, level, the first three words
createSignature(entry) ==
  [source |-> entry.source, level |-> entry.level,
   messagePrefix |-> SubSeq(entry.message, 1, Min(3, Len(entry.message)))]

\* messagePrefix.substr(0, 20) on words joined by single blanks: a word that
\* starts within the first 20 characters stays, cut to the characters left
substr20(words) ==
  LET off[k \in 1..Len(words)] ==
        IF k = 1 THEN 0 ELSE off[k - 1] + Len(words[k - 1]) + 1
      n == Cardinality({k \in 1..Len(words) : off[k] <= 20})
  IN [k \in 1..n |-> [tok |-> words[k], len |-> Min(Len(words[k]), 20 - off[k])]]

\* PatternAnalyzer::sequenceToSignature
sequenceToSignature(sequence) ==
  [i \in 1..Len(sequence) |->
     <<sequence[i].source, LevelOrdinal(sequence[i].level),
       substr20(sequence[i].messagePrefix)>>]

Pattern == [frequency |-> 0, firstSeen |-> 0, lastSeen |-> 0, examples |-> <<>>]

\* examples.push_back(latestEntry) and the erase of the first example when
\* there are more than maxExamples, made times times
RECURSIVE pushExamples(_, _, _, _)
pushExamples(examples, latestEntry, times, maxExamples) ==
  IF times = 0 THEN examples
  ELSE LET pushed == Append(examples, latestEntry)
       IN pushExamples(IF Len(pushed) > maxExamples THEN Tail(pushed) ELSE pushed,
                       latestEntry, times - 1, maxExamples)

\* PatternAnalyzer::updatePatternUnlocked, made times times for one signature
\* and the same latest entry: what becomes of the signature's pattern
updatePatternUnlocked(old, latestEntry, times, maxExamples) ==
  [frequency |-> old.frequency + times,
   firstSeen |-> IF old.firstSeen = 0 THEN latestEntry.timestamp ELSE old.firstSeen,
   lastSeen |-> latestEntry.timestamp,
   examples |-> pushExamples(old.examples, latestEntry, times, maxExamples)]

\* an analyzer that counts the sub-sequences that end at the new entry only
patternAddEntryCountsNewest(pa, entry) ==
  LET pushed == Append(pa.m_recentEvents, entry)
      recent == IF Len(pushed) > pa.m_sequenceWindowSize THEN Tail(pushed) ELSE pushed
      made == [i \in 1..Len(recent) |-> createSignature(recent[i])]
      grams == {<<len, Len(recent) - len,
                  sequenceToSignature(SubSeq(made, Len(recent) - len + 1, Len(recent)))>> :
                  len \in 2..Min(pa.m_sequenceWindowSize, Len(recent))}
      times == [sig \in {g[3] : g \in grams} |->
                  Cardinality({g \in grams : g[3] = sig})]
  IN [m_sequenceWindowSize |-> pa.m_sequenceWindowSize,
      m_maxPatternExamples |-> pa.m_maxPatternExamples,
      m_recentEvents |-> recent,
      m_sequenceCounts |->
        [sig \in DOMAIN pa.m_sequenceCounts \cup DOMAIN times |->
           Get(pa.m_sequenceCounts, sig, 0) + Get(times, sig, 0)],
      m_patterns |->
        [sig \in DOMAIN pa.m_patterns \cup DOMAIN times |->
           IF sig \in DOMAIN times
             THEN updatePatternUnlocked(Get(pa.m_patterns, sig, Pattern), entry,
                                        times[sig], pa.m_maxPatternExamples)
             ELSE pa.m_patterns[sig]]]

\* PatternAnalyzer::addEntry: the window slides, then every contiguous
\* sub-sequence of length 2 or more of the window is counted once
patternAddEntry(pa, entry) ==
  LET pushed == Append(pa.m_recentEvents, entry)
      recent == IF Len(pushed) > pa.m_sequenceWindowSize THEN Tail(pushed) ELSE pushed
      made == [i \in 1..Len(recent) |-> createSignature(recent[i])]
      grams == UNION {{<<len, start,
                         sequenceToSignature(SubSeq(made, start + 1, start + len))>> :
                         start \in 0..(Len(recent) - len)} :
                      len \in 2..Min(pa.m_sequenceWindowSize, Len(recent))}
      times == [sig \in {g[3] : g \in grams} |->
                  Cardinality({g \in grams : g[3] = sig})]
  IN [m_sequenceWindowSize |-> pa.m_sequenceWindowSize,
      m_maxPatternExamples |-> pa.m_maxPatternExamples,
      m_recentEvents |-> recent,
      m_sequenceCounts |->
        [sig \in DOMAIN pa.m_sequenceCounts \cup DOMAIN times |->
           Get(pa.m_sequenceCounts, sig, 0) + Get(times, sig, 0)],
      m_patterns |->
        [sig \in DOMAIN pa.m_patterns \cup DOMAIN times |->
           IF sig \in DOMAIN times
             THEN updatePatternUnlocked(Get(pa.m_patterns, sig, Pattern), entry,
                                        times[sig], pa.m_maxPatternExamples)
             ELSE pa.m_patterns[sig]]]

\* the words ERROR, CRITICAL and FATAL that std::string::find looks for
severityWordIn(tok) == tok \in {"ERROR", "CRITICAL", "FATAL"}

\* PatternAnalyzer::isHighSeverityPattern
isHighSeverityPattern(sig) ==
  \E i \in 1..Len(sig) :
    \/ severityWordIn(sig[i][1])
    \/ \E k \in 1..Len(sig[i][3]) :
         /\ severityWordIn(sig[i][3][k].tok)
         /\ sig[i][3][k].len = Len(sig[i][3][k].tok)

\* PatternAnalyzer::detectAnomalies: the novel high-severity patterns, then
\* the sequences counted once
patternDetectAnomalies(pa) ==
  LET novel == iteration({sig \in DOMAIN pa.m_patterns :
                            /\ pa.m_patterns[sig].frequency = 1
                            /\ isHighSeverityPattern(sig)})
      fresh == iteration({sig \in DOMAIN pa.m_sequenceCounts :
                            pa.m_sequenceCounts[sig] = 1})
  IN [i \in 1..Len(novel) |->
        [text |-> "Novel high-severity pattern", args |-> <<novel[i]>>]]
     \o [i \in 1..Len(fresh) |->
           [text |-> "New sequence pattern", args |-> <<fresh[i]>>]]


(***************************************************************************)
(* SpikeDetector                                                           *)
(***************************************************************************)
m_spikeThreshold == 3
m_shortWindow == 60
m_baselineWindow == 600
m_maxSampleEvents == 5

SourceState ==
  [recentEvents |-> <<>>, currentCount |-> 0, baselineEvents |-> <<>>,
   baselineCount |-> 0, previousCount |-> 0, samples |-> <<>>]

\* statistics whose baseline is the part of the long window that lies
\* before the short window
spikeCalculateStatsEarlierBaseline(state, source, now) ==
  [source |-> source,
   currentCount |-> state.currentCount,
   baselineCount |-> IF state.baselineCount # 0 THEN state.baselineCount ELSE 1,
   windowStart |-> now - m_shortWindow,
   windowEnd |-> now,
   spikeRatio |-> IF state.baselineCount > state.currentCount
                    THEN Frac(state.currentCount * (m_baselineWindow - m_shortWindow),
                              (state.baselineCount - state.currentCount) * m_shortWindow)
                    ELSE Frac(1, 1),
   rateOfChange |-> IF state.previousCount > 0
                      THEN Frac(state.currentCount - state.previousCount,
                                state.previousCount)
                      ELSE Frac(0, 1)]

\* SpikeDetector::calculateStats
spikeCalculateStats(state, source, now) ==
  [source |-> source,
   currentCount |-> state.currentCount,
   baselineCount |-> IF state.baselineCount # 0 THEN state.baselineCount ELSE 1,
   windowStart |-> now - m_shortWindow,
   windowEnd |-> now,
   spikeRatio |-> IF state.baselineCount > 0
                    THEN Frac(state.currentCount * m_baselineWindow,
                              state.baselineCount * m_shortWindow)
                    ELSE Frac(1, 1),
   rateOfChange |-> IF state.previousCount > 0
                      THEN Frac(state.currentCount - state.previousCount,
                                state.previousCount)
                      ELSE Frac(0, 1)]

\* a test that also takes a ratio equal to the threshold
isSpikeAtThreshold(stats) ==
  /\ FracGeq(stats.spikeRatio, Frac(m_spikeThreshold, 1))
  /\ stats.currentCount >= 5
  /\ stats.baselineCount >= 10

\* SpikeDetector::isSpike.  The program divides in double; for counts below
\* 110 the double quotient is above the threshold exactly when the exact one is.
isSpike(stats) ==
  /\ FracGt(stats.spikeRatio, Frac(m_spikeThreshold, 1))
  /\ stats.currentCount >= 5
  /\ stats.baselineCount >= 10

\* SpikeDetector::createAnomaly
createAnomaly(stats, samples) ==
  [description |-> [text |-> "Spike detected",
                    args |-> <<stats.source, stats.currentCount, m_shortWindow,
                               stats.spikeRatio, stats.rateOfChange>>],
   severity |-> FracMin1(Frac(stats.spikeRatio.num - stats.spikeRatio.den,
                              stats.spikeRatio.den * (m_spikeThreshold - 1))),
   stats |-> stats,
   sampleEvents |-> samples]

\* SpikeDetector::processEntry: the new m_sourceStates and the returned vector
spikeProcessEntry(states, entry) ==
  LET nowTime == entry.timestamp
      src == entry.source
      old == Get(states, src, SourceState)
      recent == evictFront(Append(old.recentEvents, nowTime), nowTime, m_shortWindow)
      baseline == evictFront(Append(old.baselineEvents, nowTime), nowTime,
                             m_baselineWindow)
      state == [old EXCEPT
                  !.recentEvents = recent,
                  !.currentCount = old.currentCount + 1
                                     - (Len(old.recentEvents) + 1 - Len(recent)),
                  !.baselineEvents = baseline,
                  !.baselineCount = old.baselineCount + 1
                                      - (Len(old.baselineEvents) + 1 - Len(baseline)),
                  !.samples = LastN(Append(old.samples, entry), m_maxSampleEvents)]
      stats == spikeCalculateStats(state, src, nowTime)
  IN IF src = "" THEN [states |-> states, out |-> <<>>]
     ELSE [states |-> Put(states, src, state),
           out |-> IF isSpike(stats) THEN <<createAnomaly(stats, state.samples)>>
                   ELSE <<>>]

(***************************************************************************)
(* Exact arithmetic for the z-score test.  The program computes in double; *)
(* the model computes in exact rationals, with natural numbers too large   *)
(* for one machine word kept as little-endian digit sequences in base 1000 *)
(* (no leading zero digit; zero is the empty sequence).                    *)
(***************************************************************************)
\* the digits of limbs[1] + 1000 limbs[2] + ... + carry, for a sum that is
\* not negative
RECURSIVE BigCarry(_, _)
BigCarry(limbs, carry) ==
  IF limbs = <<>>
    THEN IF carry <= 0 THEN <<>>
         ELSE <<carry % 1000>> \o BigCarry(<<>>, carry \div 1000)
    ELSE <<(Head(limbs) + carry) % 1000>>
           \o BigCarry(Tail(limbs), (Head(limbs) + carry) \div 1000)

BigTrim(a) ==
  LET digits == {i \in 1..Len(a) : a[i] # 0}
  IN IF digits = {} THEN <<>>
     ELSE SubSeq(a, 1, CHOOSE i \in digits : \A j \in digits : j <= i)

BigOf(n) == BigTrim(<<n % 1000, (n \div 1000) % 1000, (n \div 1000000) % 1000,
                      n \div 1000000000>>)

BigLimb(a, i) == IF i \in 1..Len(a) THEN a[i] ELSE 0

BigAdd(a, b) ==
  BigTrim(BigCarry([i \in 1..Max(Len(a), Len(b)) |-> BigLimb(a, i) + BigLimb(b, i)], 0))

BigMul(a, b) ==
  BigTrim(BigCarry(
    [k \in 1..(Len(a) + Len(b)) |->
       SumSeq([i \in 1..Len(a) |-> a[i] * BigLimb(b, k + 1 - i)])],
    0))

\* a < b
BigLess(a, b) ==
  \/ Len(a) < Len(b)
  \/ /\ Len(a) = Len(b)
     /\ \E i \in 1..Len(a) :
          /\ a[i] < b[i]
          /\ \A j \in (i + 1)..Len(a) : a[j] = b[j]

\* a - b for a >= b
BigSub(a, b) ==
  BigTrim(BigCarry([i \in 1..Len(a) |-> a[i] - BigLimb(b, i)], 0))

RECURSIVE Gcd(_, _)
Gcd(a, b) == IF b = 0 THEN a ELSE Gcd(b, a % b)

Lcm2(a, b) == (a \div Gcd(a, b)) * b

\* the least common multiple of a sequence of positive numbers, by halves
RECURSIVE Lcm(_)
Lcm(s) ==
  IF Len(s) = 0 THEN 1
  ELSE IF Len(s) = 1 THEN s[1]
  ELSE Lcm2(Lcm(SubSeq(s, 1, Len(s) \div 2)),
            Lcm(SubSeq(s, Len(s) \div 2 + 1, Len(s))))

(***************************************************************************)
(* StatisticalDetector                                                     *)
(***************************************************************************)
m_zScoreThreshold == 3
m_rateWindow == 600

\* OnlineStats after construction.  samples holds the values update() was
\* given; Welford's recurrences keep mean = sum(samples) / count and
\* m2 = sum((x - mean)^2), and the model computes both from samples.
OnlineStats == [count |-> 0, samples |-> <<>>]

\* the detector after its constructor
StatisticalDetector ==
  [m_sourceStats |-> EmptyMap, m_globalStats |-> OnlineStats,
   m_recentBySource |-> EmptyMap]

\* OnlineStats::update
statUpdate(stats, value) ==
  [count |-> stats.count + 1, samples |-> Append(stats.samples, value)]

\* StatisticalDetector::calculateEventRate, on the deque after the push and
\* the eviction: events per minute
calculateEventRate(dq) ==
  IF Len(dq) < 2 THEN Frac(Len(dq) * 60, Max(1, m_rateWindow))
  ELSE Frac(Len(dq) * 60, Max(1, diffSeconds(dq[1], dq[Len(dq)])))

\* the samples over their common denominator
scaled(samples) ==
  LET d == Lcm(iteration({samples[i].den : i \in 1..Len(samples)}))
      xs == [i \in 1..Len(samples) |-> samples[i].num * (d \div samples[i].den)]
  IN SubSeq(xs, 1, Len(xs))

\* the sum of the squares of numbers below 2^31, digit column by digit column
SumSquares(xs) ==
  LET x == [i \in 1..Len(xs) |-> BigOf(xs[i])]
  IN BigTrim(BigCarry(
       [k \in 1..7 |->
          SumSeq([i \in 1..Len(xs) |->
                    SumSeq([j \in 1..4 |-> BigLimb(x[i], j) * BigLimb(x[i], k + 1 - j)])])],
       0))

\* count * sum(x^2) - sum(x)^2, which is count * m2, over the common
\* denominator squared
spread(xs, squares) ==
  BigSub(BigMul(BigOf(Len(xs)), squares),
         BigMul(BigOf(SumSeq(xs)), BigOf(SumSeq(xs))))

\* count * value - sum(x) for the value just added
deviation(xs) == Len(xs) * xs[Len(xs)] - SumSeq(xs)

\* a test that reports a value more than two deviations from the mean
zScoreExceedsTwo(stats) ==
  /\ stats.count >= 10
  /\ \E xs \in {scaled(stats.samples)} :
     \E squares \in {SumSquares(xs)} :
     \E m2 \in {spread(xs, squares)}, d \in {BigOf(Max(deviation(xs), -deviation(xs)))} :
       /\ m2 # <<>>
       /\ \E bound \in {BigMul(BigOf(2 * 2 * stats.count), m2)},
             dd \in {BigMul(d, d)} :
            BigLess(bound, BigMul(dd, BigOf(stats.count - 1)))

\* calculateZScore and isAnomaly for the value just added: zero unless
\* count >= 10 and the deviation is not zero; then |z| > m_zScoreThreshold,
\* that is (n v - S)^2 (n - 1) > threshold^2 n (n Q - S^2)
zScoreExceeds(stats) ==
  /\ stats.count >= 10
  /\ \E xs \in {scaled(stats.samples)} :
     \E squares \in {SumSquares(xs)} :
     \E m2 \in {spread(xs, squares)}, d \in {BigOf(Max(deviation(xs), -deviation(xs)))} :
       /\ m2 # <<>>
       /\ \E bound \in {BigMul(BigOf(m_zScoreThreshold * m_zScoreThreshold
                                        * stats.count), m2)},
             dd \in {BigMul(d, d)} :
            BigLess(bound, BigMul(dd, BigOf(stats.count - 1)))

\* |z| >= p / q for the value just added, where z is zero unless count >= 10
\* and the deviation is not zero: q^2 (n v - S)^2 (n - 1) >= p^2 n (n Q - S^2)
zScoreAtLeast(stats, p, q) ==
  \/ p <= 0
  \/ /\ stats.count >= 10
     /\ \E xs \in {scaled(stats.samples)} :
        \E squares \in {SumSquares(xs)} :
        \E m2 \in {spread(xs, squares)}, d \in {BigOf(Max(deviation(xs), -deviation(xs)))} :
          /\ m2 # <<>>
          /\ \E bound \in {BigMul(BigOf(p * p * stats.count), m2)},
                dd \in {BigMul(BigOf(q * q), BigMul(d, d))} :
               ~BigLess(BigMul(dd, BigOf(stats.count - 1)), bound)

\* the severity StatisticalDetector::createAnomaly computes,
\* min(1.0, |z| / m_zScoreThreshold).  main() compares it with 0.9 and 0.6
\* only; below 1 the model keeps the lowest value of the band it lies in.
statSeverity(stats) ==
  IF zScoreAtLeast(stats, m_zScoreThreshold, 1) THEN Frac(1, 1)
  ELSE IF zScoreAtLeast(stats, 9 * m_zScoreThreshold, 10) THEN Frac(9, 10)
  ELSE IF zScoreAtLeast(stats, 6 * m_zScoreThreshold, 10) THEN Frac(6, 10)
  ELSE Frac(0, 1)

\* a detector that tests the value against the statistics as they were
\* before the value was added
statProcessEntryStatsBefore(sd, entry) ==
  LET source == entry.source
      dq == evictFront(Append(Get(sd.m_recentBySource, source, <<>>), entry.timestamp),
                       entry.timestamp, m_rateWindow)
      eventRate == calculateEventRate(dq)
      before == Get(sd.m_sourceStats, source, OnlineStats)
      sourceStats == statUpdate(before, eventRate)
  IN [sd |-> [m_sourceStats |-> Put(sd.m_sourceStats, source, sourceStats),
              m_globalStats |-> statUpdate(sd.m_globalStats, eventRate),
              m_recentBySource |-> Put(sd.m_recentBySource, source, dq)],
      out |-> IF before.count >= 10 /\ zScoreExceeds(before)
                THEN << [description |-> [text |-> "Statistical anomaly detected",
                                          args |-> <<source>>],
                         zscore |-> [sign |-> 1, beyond |-> m_zScoreThreshold],
                         severity |-> Frac(1, 1),
                         count |-> sourceStats.count,
                         entry |-> entry] >>
                ELSE <<>>]

\* StatisticalDetector::processEntry: the new detector and the returned
\* vector.  The z-score of an anomaly is a double beyond the threshold; the
\* model keeps its sign.
statProcessEntry(sd, entry) ==
  LET source == entry.source
      dq == evictFront(Append(Get(sd.m_recentBySource, source, <<>>), entry.timestamp),
                       entry.timestamp, m_rateWindow)
      eventRate == calculateEventRate(dq)
      sourceStats == statUpdate(Get(sd.m_sourceStats, source, OnlineStats), eventRate)
  IN [sd |-> [m_sourceStats |-> Put(sd.m_sourceStats, source, sourceStats),
              m_globalStats |-> statUpdate(sd.m_globalStats, eventRate),
              m_recentBySource |-> Put(sd.m_recentBySource, source, dq)],
      out |-> IF zScoreExceeds(sourceStats)
                THEN << [description |-> [text |-> "Statistical anomaly detected",
                                          args |-> <<source>>],
                         zscore |-> [sign |-> IF deviation(scaled(sourceStats.samples)) >= 0
                                                   THEN 1 ELSE -1,
                                     beyond |-> m_zScoreThreshold],
                         severity |-> statSeverity(sourceStats),
                         count |-> sourceStats.count,
                         entry |-> entry] >>
                ELSE <<>>]

(***************************************************************************)
(* core::Report and the conversions main() makes                           *)
(***************************************************************************)
Anomaly(type, severity, windowStart, windowEnd, score, description, source, related) ==
  [type |-> type, severity |-> severity, windowStart |-> windowStart,
   windowEnd |-> windowEnd, score |-> score, description |-> description,
   source |-> source, relatedEntries |-> related]

\* the report after construction
Report ==
  [m_analysisStart |-> 0, m_analysisEnd |-> 0, m_totalEntries |-> 0,
   m_anomalies |-> <<>>, m_levelStats |-> EmptyMap, m_sourceStats |-> EmptyMap]

LevelStats == [count |-> 0, anomalyCount |-> 0]
SourceStats == [totalEvents |-> 0, errorEvents |-> 0, warningEvents |-> 0]

\* a counter that counts an event only when it is an anomaly
incrementLevelCountOfAnomalies(r, level, isAnomaly) ==
  LET old == Get(r.m_levelStats, level, LevelStats)
  IN [r EXCEPT !.m_levelStats =
        Put(r.m_levelStats, level,
            [count |-> old.count + (IF isAnomaly THEN 1 ELSE 0),
             anomalyCount |-> old.anomalyCount + (IF isAnomaly THEN 1 ELSE 0)])]

\* Report::incrementLevelCount
incrementLevelCount(r, level, isAnomaly) ==
  LET old == Get(r.m_levelStats, level, LevelStats)
  IN [r EXCEPT !.m_levelStats =
        Put(r.m_levelStats, level,
            [count |-> old.count + 1,
             anomalyCount |-> old.anomalyCount + (IF isAnomaly THEN 1 ELSE 0)])]

\* Report::updateSourceStats
updateSourceStats(r, source, level) ==
  LET old == Get(r.m_sourceStats, source, SourceStats)
  IN [r EXCEPT !.m_sourceStats =
        Put(r.m_sourceStats, source,
            [totalEvents |-> old.totalEvents + 1,
             errorEvents |-> old.errorEvents + (IF isErrorLike(level) THEN 1 ELSE 0),
             warningEvents |-> old.warningEvents + (IF level = "Warn" THEN 1 ELSE 0)])]

\* a report that puts new anomalies in front of the old ones
addAnomaliesInFront(r, as) == [r EXCEPT !.m_anomalies = as \o r.m_anomalies]

\* Report::addAnomaly, for a vector of anomalies in order
addAnomalies(r, as) == [r EXCEPT !.m_anomalies = r.m_anomalies \o as]

\* a malformed-line anomaly that names no source
malformedAnomalyWithoutSource(pr, nowTp) ==
  Anomaly("Other", "Low", nowTp, nowTp, Frac(1, 1),
          [text |-> "Malformed log line: ",
           args |-> <<IF pr.error = "" THEN "parse failure" ELSE pr.error>>],
          None, <<>>)

\* a malformed-line anomaly whose description carries the clock reading
malformedAnomalyStamped(pr, nowTp) ==
  Anomaly("Other", "Low", nowTp, nowTp, Frac(1, 1),
          [text |-> "Malformed log line: ",
           args |-> <<IF pr.error = "" THEN "parse failure" ELSE pr.error, nowTp>>],
          Some("parser"), <<>>)

\* the anomaly main() makes of a line that failed to parse
malformedAnomaly(pr, nowTp) ==
  Anomaly("Other", "Low", nowTp, nowTp, Frac(1, 1),
          [text |-> "Malformed log line: ",
           args |-> <<IF pr.error = "" THEN "parse failure" ELSE pr.error>>],
          Some("parser"), <<>>)

\* the anomaly main() makes of a SpikeDetector::SpikeAnomaly
spikeAnomaly(s) ==
  Anomaly("FrequencySpike",
          IF FracGeq(s.severity, Frac(9, 10)) THEN "Critical"
          ELSE IF FracGeq(s.severity, Frac(6, 10)) THEN "High" ELSE "Medium",
          s.stats.windowStart, s.stats.windowEnd, s.stats.spikeRatio, s.description,
          IF s.stats.source = "" THEN None ELSE Some(s.stats.source),
          s.sampleEvents)

\* the anomaly main() makes of a StatisticalDetector::Anomaly
statAnomaly(st, entry) ==
  Anomaly("StatisticalOutlier",
          IF FracGeq(st.severity, Frac(9, 10)) THEN "High"
          ELSE IF FracGeq(st.severity, Frac(6, 10)) THEN "Medium" ELSE "Low",
          entry.timestamp, entry.timestamp, st.zscore, st.description,
          Some(entry.source), <<entry>>)

\* the anomaly main() makes of a message of an end-of-stream scan
summaryAnomaly(type, d, start, end) ==
  Anomaly(type, "Medium", start, end, Frac(1, 1), d, None, <<>>)

\* the anomaly main() makes of a BurstPatternDetector::Burst
burstAnomaly(br) ==
  Anomaly("SequenceViolation", "High", br.windowStart, br.windowEnd,
          Frac(br.score, 1), br.description, Some(br.source), br.samples)

\* the anomaly main() makes of an IpFrequencyDetector::IpHit
ipAnomaly(iphit) ==
  Anomaly("RarePattern", "Low", iphit.entry.timestamp, iphit.entry.timestamp,
          Frac(1, 1),
          [text |-> "Rare IP observed", args |-> <<iphit.count, iphit.ip>>],
          Some(iphit.entry.source), <<iphit.entry>>)

\* the anomaly main() makes of a TimeWindowAnalyzer::Anomaly: Silence when the
\* description holds that word, the severity from the score, no source
twAnomaly(tw) ==
  Anomaly(IF tw.description.text = "Silence detected" THEN "Silence"
          ELSE "FrequencySpike",
          IF FracGeq(tw.score, Frac(9, 10)) THEN "High"
          ELSE IF FracGeq(tw.score, Frac(6, 10)) THEN "Medium" ELSE "Low",
          tw.stats.windowStart, tw.stats.windowEnd, tw.score, tw.description,
          None, <<>>)

(***************************************************************************)
(* The report sinks.  A description is a std::string in the program; the   *)
(* model renders it as the sequence of the pieces the program concatenates *)
(* and compares two renderings piece by piece.                              *)
(***************************************************************************)
\* std::to_string of a natural number, one piece per digit
RECURSIVE toString(_)
toString(n) ==
  LET digit == <<"0", "1", "2", "3", "4", "5", "6", "7", "8", "9">>[(n % 10) + 1]
  IN IF n < 10 THEN <<digit>> ELSE toString(n \div 10) \o <<digit>>

\* words joined by single blanks
joined(words) ==
  [i \in 1..(2 * Len(words) - 1) |-> IF i % 2 = 1 THEN words[(i + 1) \div 2] ELSE " "]

\* the words messagePrefix.substr(0, 20) keeps whole
keptWords(prefix) ==
  [k \in 1..Len(prefix) |->
     CASE prefix[k].len = Len(prefix[k].tok) -> prefix[k].tok]

\* the text sequenceToSignature writes for one element of a sequence
elementText(el) == <<el[1], ":">> \o toString(el[2]) \o <<":">> \o joined(keptWords(el[3]))

\* the text sequenceToSignature writes: the elements joined by "->"
RECURSIVE signatureText(_)
signatureText(sig) ==
  IF Len(sig) = 1 THEN elementText(sig[1])
  ELSE elementText(sig[1]) \o <<"->">> \o signatureText(Tail(sig))

\* the string the program builds for a description
descriptionText(d) ==
  CASE d.text = "" -> <<>>
    [] d.text = "Malformed log line: " -> <<"Malformed log line: ", d.args[1]>>
    [] d.text = "Rare IP observed" ->
         <<"Rare IP observed (count=">> \o toString(d.args[1]) \o <<"): ", d.args[2]>>
    [] d.text = "Rare message pattern" ->
         <<"Rare message pattern '">> \o joined(d.args[1]) \o <<"': only ">>
           \o toString(d.args[2]) \o <<" occurrences">>
    [] d.text = "New sequence pattern" ->
         <<"New sequence pattern: ">> \o signatureText(d.args[1])
    [] d.text = "Burst repetition detected" ->
         <<"Burst repetition detected: ">> \o toString(d.args[1])
           \o <<" repeats within ">> \o toString(d.args[2]) \o <<"s">>

\* the pieces in the order of std::string's operator<
collation ==
  <<" ", " occurrences", " repeats within ", "': only ", "): ", "->",
    "0", "1", "10.0.0.1", "10.0.0.7", "2", "3", "4", "5", "6", "7", "8", "9", ":",
    "Burst repetition detected: ", "Empty line", "FROM", "Invalid timestamp format",
    "JSON missing required fields", "LOGIN", "Malformed log line: ",
    "New sequence pattern: ", "No matching pattern", "Rare IP observed (count=",
    "Rare message pattern '", "from", "login", "parse failure", "s", "svc2",
    "unknown">>

collationRank(piece) == CHOOSE k \in 1..Len(collation) : collation[k] = piece

\* std::string's operator< on two renderings
textLess(x, y) ==
  LET differ == {i \in 1..Min(Len(x), Len(y)) : x[i] # y[i]}
      first == CHOOSE i \in differ : \A j \in differ : i <= j
  IN IF differ = {} THEN Len(x) < Len(y)
     ELSE collationRank(x[first]) < collationRank(y[first])

\* a.description() < b.description()
descriptionLess(a, b) ==
  textLess(descriptionText(a.description), descriptionText(b.description))

\* a.score() != b.score() and a.score() > b.score() on doubles
scoreDiffers(a, b) == a.score.num * b.score.den # b.score.num * a.score.den
scoreGreater(a, b) == FracGt(a.score, b.score)

\* ReportGenerator::anomalySeverityComparator, and the lambda of
\* JsonReporter::generateReport, which has the same body
anomalySeverityComparator(a, b) ==
  IF a.severity # b.severity THEN SeverityRank(a.severity) > SeverityRank(b.severity)
  ELSE IF scoreDiffers(a, b) THEN scoreGreater(a, b)
  ELSE IF a.windowEnd # b.windowEnd THEN a.windowEnd > b.windowEnd
  ELSE descriptionLess(a, b)

\* the lambda of CsvReporter::generateReport
csvComparator(a, b) ==
  IF a.severity # b.severity THEN SeverityRank(a.severity) > SeverityRank(b.severity)
  ELSE IF scoreDiffers(a, b) THEN scoreGreater(a, b)
  ELSE a.windowEnd > b.windowEnd

\* std::sort: a permutation in which no element comes before one the
\* comparator puts in front of it.  The order of elements that compare
\* equivalent is unspecified; the model takes the two outcomes "as they came"
\* and "reversed".
stdSort(as, comp(_, _), keepTies) ==
  LET n == Len(as)
      before(j, i) ==
        \/ comp(as[j], as[i])
        \/ /\ ~comp(as[i], as[j])
           /\ IF keepTies THEN j < i ELSE j > i
      place == [i \in 1..n |-> 1 + Cardinality({j \in (1..n) \ {i} : before(j, i)})]
  IN [r \in 1..n |-> as[CHOOSE i \in 1..n : place[i] = r]]

\* "if (m_maxAnomalies > 0 && size() > m_maxAnomalies) resize(m_maxAnomalies)"
capped(as, maxAnomalies) ==
  IF maxAnomalies > 0 /\ Len(as) > maxAnomalies THEN SubSeq(as, 1, maxAnomalies) ELSE as

\* the filter of JsonReporter and CsvReporter: the severity on the scale 0..1
\* (the enum over 4) is not below m_minSeverity; m_minSeverity is num / 4
passesMinSeverity(a, minSeverity) == SeverityRank(a.severity) >= minSeverity

\* the sinks after their constructors
ReportGenerator == [m_maxAnomalies |-> 50, m_sortedAnomalies |-> <<>>]
JsonReporter == [m_maxAnomalies |-> 100, m_minSeverity |-> 0, m_anomalies |-> <<>>]
CsvReporter == [m_maxAnomalies |-> 1000, m_minSeverity |-> 0, m_anomalies |-> <<>>]

Sinks == [gen |-> ReportGenerator, json |-> JsonReporter, csv |-> CsvReporter]

\* ReportGenerator::generateReport
generatorGenerateReport(g, r, keepTies) ==
  [g EXCEPT !.m_sortedAnomalies =
     capped(stdSort(r.m_anomalies, anomalySeverityComparator, keepTies),
            g.m_maxAnomalies)]

\* JsonReporter::generateReport
jsonGenerateReport(j, r, keepTies) ==
  LET passes(a) == passesMinSeverity(a, j.m_minSeverity)
  IN [j EXCEPT !.m_anomalies =
        capped(stdSort(SelectSeq(r.m_anomalies, passes), anomalySeverityComparator,
                       keepTies),
               j.m_maxAnomalies)]

\* CsvReporter::generateReport
csvGenerateReport(c, r, keepTies) ==
  LET passes(a) == passesMinSeverity(a, c.m_minSeverity)
  IN [c EXCEPT !.m_anomalies =
        capped(stdSort(SelectSeq(r.m_anomalies, passes), csvComparator, keepTies),
               c.m_maxAnomalies)]

\* std::numeric_limits<int>::max()
IntMax == 2147483647

\* an exit code taken from the capped view of the summary generator
exitCodeOfView(r, g) ==
  IF Len(g.m_sortedAnomalies) = 0 THEN 0
  ELSE IF Len(g.m_sortedAnomalies) > IntMax THEN IntMax
  ELSE Len(g.m_sortedAnomalies)

\* the last statements of main(): the value it returns
exitCodeOf(r, g) ==
  IF Len(r.m_anomalies) = 0 THEN 0
  ELSE IF Len(r.m_anomalies) > IntMax THEN IntMax
  ELSE Len(r.m_anomalies)

(***************************************************************************)
(* RuleBasedDetector: the rule set and the result cache                    *)
(***************************************************************************)
\* RulePriority: CRITICAL = 0, HIGH = 1, MEDIUM = 2, LOW = 3
RulePriority == [CRITICAL |-> 0, HIGH |-> 1, MEDIUM |-> 2, LOW |-> 3]

\* RuleConfig, the members the detector reads
RuleConfig(name, id, type, priority, condition, severity, enabled) ==
  [name |-> name, id |-> id, type |-> type, priority |-> priority,
   condition |-> condition, severity |-> severity, enabled |-> enabled]

\* RuleBasedDetector::compileRule: the lambda holds a copy of the rule, of
\* which the checks modelled here read the type and the condition
compileRule(rule) == [type |-> rule.type, condition |-> rule.condition]

\* CompiledRule(cfg, func)
CompiledRule(cfg) == [config |-> cfg, function |-> compileRule(cfg)]

\* RuleBasedDetector::sortRulesByPriority; rules of one priority compare
\* equivalent
sortRulesByPriority(rules, keepTies) ==
  stdSort(rules, LAMBDA a, b : a.config.priority < b.config.priority, keepTies)

\* RuleBasedDetector::addRule: the new detector and the value returned
addRule(rd, rule, keepTies) ==
  LET cfg == IF rule.id = "" THEN [rule EXCEPT !.id = rule.name] ELSE rule
  IN IF cfg.id \in DOMAIN rd.m_ruleIdIndex
       THEN LET idx == rd.m_ruleIdIndex[cfg.id]
            IN IF idx >= Len(rd.m_compiledRules)
                 THEN [rd |-> rd, ok |-> FALSE]
                 ELSE [rd |-> [rd EXCEPT !.m_compiledRules[idx + 1] = CompiledRule(cfg)],
                       ok |-> TRUE]
       ELSE [rd |-> [rd EXCEPT
                       !.m_ruleIdIndex = Put(@, cfg.id, Len(rd.m_compiledRules)),
                       !.m_compiledRules =
                          sortRulesByPriority(Append(@, CompiledRule(cfg)), keepTies)],
             ok |-> TRUE]

\* the "rebuild index" loop of removeRule: a later rule of an id overwrites
\* an earlier one
rebuiltIndex(rules) ==
  LET ids == {rules[i].config.id : i \in 1..Len(rules)}
  IN [id \in ids |->
        (CHOOSE i \in 1..Len(rules) :
           /\ rules[i].config.id = id
           /\ \A j \in 1..Len(rules) : rules[j].config.id = id => j <= i) - 1]

\* RuleBasedDetector::removeRule
removeRule(rd, ruleId) ==
  IF ruleId \notin DOMAIN rd.m_ruleIdIndex THEN [rd |-> rd, ok |-> FALSE]
  ELSE LET idx == rd.m_ruleIdIndex[ruleId]
           rules == [i \in 1..(Len(rd.m_compiledRules) - 1) |->
                       rd.m_compiledRules[IF i <= idx THEN i ELSE i + 1]]
       IN IF idx >= Len(rd.m_compiledRules) THEN [rd |-> rd, ok |-> FALSE]
          ELSE [rd |-> [rd EXCEPT !.m_compiledRules = rules,
                                  !.m_ruleIdIndex = rebuiltIndex(rules)],
                ok |-> TRUE]

\* RuleBasedDetector::updateRule
updateRule(rd, ruleId, newConfig, keepTies) ==
  LET cfg == [newConfig EXCEPT !.id = ruleId]
  IN IF ruleId \notin DOMAIN rd.m_ruleIdIndex THEN [rd |-> rd, ok |-> FALSE]
     ELSE [rd |-> [rd EXCEPT !.m_compiledRules =
                     sortRulesByPriority(
                       [@ EXCEPT ![rd.m_ruleIdIndex[ruleId] + 1] = CompiledRule(cfg)],
                       keepTies)],
           ok |-> TRUE]

\* RuleBasedDetector::getRule
getRule(rd, ruleId) ==
  IF ruleId \notin DOMAIN rd.m_ruleIdIndex THEN None
  ELSE Some(rd.m_compiledRules[rd.m_ruleIdIndex[ruleId] + 1].config)

\* RuleBasedDetector::setRuleEnabled
setRuleEnabled(rd, ruleId, enabled) ==
  IF ruleId \notin DOMAIN rd.m_ruleIdIndex THEN [rd |-> rd, ok |-> FALSE]
  ELSE [rd |-> [rd EXCEPT
                  !.m_compiledRules[rd.m_ruleIdIndex[ruleId] + 1].config.enabled = enabled],
        ok |-> TRUE]

\* the detector before the body of its constructor
NoRules(enableCaching, maxCacheEntries) ==
  [m_compiledRules |-> <<>>, m_ruleIdIndex |-> EmptyMap, m_cache |-> EmptyMap,
   m_cachingEnabled |-> enableCaching, m_maxCacheSize |-> maxCacheEntries]

\* RuleBasedDetector::RuleBasedDetector: two keyword rules are added
RuleBasedDetector(enableCaching, maxCacheEntries) ==
  LET r1 == RuleConfig("error_keyword", "error_keyword", "KEYWORD", RulePriority.HIGH,
                       "ERROR", Frac(9, 10), TRUE)
      r2 == RuleConfig("critical_keyword", "critical_keyword", "KEYWORD",
                       RulePriority.CRITICAL, "CRITICAL", Frac(1, 1), TRUE)
  IN addRule(addRule(NoRules(enableCaching, maxCacheEntries), r1, TRUE).rd, r2, TRUE).rd

\* the rule a line "rule.<key> = <name> <type> <condition>" of a
\* configuration makes in loadRules
loadedRule(item) ==
  RuleConfig(item.name, item.key, item.type, RulePriority.MEDIUM, item.condition,
             Frac(8, 10), item.enabled)

\* RuleBasedDetector::loadRules on the rule lines of a configuration, in the
\* order config.all() yields them: the new detector and the number loaded
RECURSIVE addLoaded(_, _, _)
addLoaded(acc, items, keepTies) ==
  IF items = <<>> THEN acc
  ELSE LET added == addRule(acc.rd, loadedRule(Head(items)), keepTies)
       IN addLoaded([rd |-> added.rd,
                     loaded |-> acc.loaded + (IF added.ok THEN 1 ELSE 0)],
                    Tail(items), keepTies)

loadRules(rd, items, merge, keepTies) ==
  LET start == IF merge THEN rd
               ELSE [rd EXCEPT !.m_compiledRules = <<>>, !.m_ruleIdIndex = EmptyMap]
      done == addLoaded([rd |-> start, loaded |-> 0], items, keepTies)
  IN [rd |-> [done.rd EXCEPT !.m_compiledRules = sortRulesByPriority(@, keepTies)],
      loaded |-> done.loaded]

\* makeCacheKey: source, "|", message
makeCacheKey(entry) == <<entry.source, entry.message>>

\* RuleBasedDetector::checkKeywordRule: Utils::contains on the upper-cased
\* message; the words of the messages read here contain a keyword only by
\* being it
checkKeywordRule(entry, keywords) ==
  \E i \in 1..Len(entry.message) : toUpperCopy(entry.message[i]) = toUpperCopy(keywords)

\* the compiled function of a rule: KEYWORD, or one of the types whose check
\* is a placeholder that returns false
ruleFunction(rule, entry) ==
  CASE rule.type = "KEYWORD" -> checkKeywordRule(entry, rule.condition)
    [] rule.type \in {"TIME_WINDOW", "SEQUENCE", "PATTERN", "COMPOSITE"} -> FALSE

\* the RuleMatch checkEntry pushes for a rule whose function returned true;
\* its timestamp, the wall clock of the call, is left out
RuleMatch(cr, rule) ==
  [ruleName |-> cr.config.name, ruleId |-> cr.config.id, ruleType |-> cr.config.type,
   details |-> <<"KEYWORD match: ", rule.condition>>, score |-> cr.config.severity]

\* the loop of checkEntry over m_compiledRules
evaluated(rd, entry) ==
  LET hits == {i \in 1..Len(rd.m_compiledRules) :
                 /\ rd.m_compiledRules[i].config.enabled
                 /\ ruleFunction(rd.m_compiledRules[i].function, entry)}
      nth[k \in 0..Len(rd.m_compiledRules)] ==
        IF k = 0 THEN <<>>
        ELSE IF k \in hits
          THEN Append(nth[k - 1],
                      RuleMatch(rd.m_compiledRules[k], rd.m_compiledRules[k].function))
          ELSE nth[k - 1]
  IN nth[Len(rd.m_compiledRules)]

\* the keys m_cache.begin() may stand for when updateCache erases it; None
\* when it erases nothing
victims(rd) ==
  IF Cardinality(DOMAIN rd.m_cache) >= rd.m_maxCacheSize /\ DOMAIN rd.m_cache # {}
    THEN {Some(k) : k \in DOMAIN rd.m_cache} ELSE {None}

\* RuleBasedDetector::updateCache
updateCache(rd, entry, matches, victim) ==
  IF ~rd.m_cachingEnabled THEN rd
  ELSE LET kept == IF ~victim.ok THEN rd.m_cache
                   ELSE [k \in DOMAIN rd.m_cache \ {victim.v} |-> rd.m_cache[k]]
       IN [rd EXCEPT !.m_cache = Put(kept, makeCacheKey(entry), matches)]

\* a detector that looks nothing up in its cache
checkEntryUncached(rd, entry, victim) ==
  [rd |-> updateCache(rd, entry, evaluated(rd, entry), victim),
   matches |-> evaluated(rd, entry)]

\* RuleBasedDetector::checkEntry: the new detector and the matches returned
checkEntry(rd, entry, victim) ==
  IF rd.m_cachingEnabled /\ makeCacheKey(entry) \in DOMAIN rd.m_cache
    THEN [rd |-> rd, matches |-> rd.m_cache[makeCacheKey(entry)]]
    ELSE [rd |-> updateCache(rd, entry, evaluated(rd, entry), victim),
          matches |-> evaluated(rd, entry)]

\* a conversion that makes one anomaly of every match
matchesToAnomaliesOnePerMatch(matches, entry) ==
  [i \in 1..Len(matches) |->
     [type |-> "Other", severity |-> "High", windowStart |-> entry.timestamp,
      windowEnd |-> entry.timestamp, score |-> matches[i].score,
      description |-> [text |-> "Rule matched", args |-> <<matches[i].ruleId>>],
      source |-> Some(entry.source), relatedEntries |-> <<>>]]

\* RuleBasedDetector::matchesToAnomalies: a placeholder that returns {}
matchesToAnomalies(matches, entry) == <<>>

(***************************************************************************)
(* The state of main()                                                     *)
(***************************************************************************)
VARIABLES
  pc,             \* "reading" inside the getline loop, "done" after the report is frozen
  lineNo,         \* lines read from the file so far
  parsedCount, malformedCount, emittedCount,
  haveTimeRange, minTs, maxTs,
  report,         \* core::Report report
  freq,           \* Analysis::FrequencyAnalyzer freq
  timeWindow,     \* Analysis::TimeWindowAnalyzer timeWindow
  pattern,        \* Analysis::PatternAnalyzer pattern
  spikeDetector,  \* SpikeDetector::m_sourceStates
  statDetector,   \* Anomaly::StatisticalDetector statDetector
  burstDetector,  \* BurstPatternDetector::m_states
  ipDetector,     \* IpFrequencyDetector::m_counts
  last,           \* what the last step read and what the detectors returned for it
  sinceBurst,     \* per signature that has emitted: entries of it processed since
  ruleDetector,   \* Anomaly::RuleBasedDetector ruleDetector
  sinks,          \* the report sinks: ReportGenerator, JsonReporter, CsvReporter
  exitCode        \* what main() returns; -1 while it runs

detectors == <<freq, timeWindow, pattern, spikeDetector, statDetector,
               burstDetector, ipDetector, ruleDetector>>

outputs == <<sinks, exitCode>>

vars == <<pc, lineNo, parsedCount, malformedCount, emittedCount, haveTimeRange,
          minTs, maxTs, report, parser, detectors, last, sinceBurst, outputs>>

NoLine == Line(0, <<>>, FALSE)

\* the entries read so far, kept only where a specification asks for them
Seen(on, entries) == [on |-> on, entries |-> entries]

Last(op, line, spike, stat, burst, ip, gap) ==
  [op |-> op, line |-> line, spike |-> spike, stat |-> stat, burst |-> burst,
   ip |-> ip, burstGap |-> gap, rule |-> <<>>, seen |-> Seen(FALSE, <<>>)]

Idle(op, line) ==
  [Last(op, line, <<>>, <<>>, <<>>, <<>>, -1) EXCEPT !.seen = last.seen]

\* the default of the constructor's maxCacheEntries
maxCacheEntries == 10000

\* main() before the read loop, with the rule detector rules; keeps
\* the entries read when keeps is TRUE
StartedKeeping(rules, keeps) ==
  /\ pc = "reading"
  /\ lineNo = 0
  /\ parsedCount = 0
  /\ malformedCount = 0
  /\ emittedCount = 0
  /\ haveTimeRange = FALSE
  /\ minTs = 0
  /\ maxTs = 0
  /\ report = Report
  /\ parser = LogParser
  /\ freq = FrequencyAnalyzer
  /\ timeWindow = TimeWindowAnalyzer
  /\ pattern = PatternAnalyzer
  /\ spikeDetector = EmptyMap
  /\ statDetector = StatisticalDetector
  /\ burstDetector = EmptyMap
  /\ ipDetector = EmptyMap
  /\ last = [Last("init", NoLine, <<>>, <<>>, <<>>, <<>>, -1)
               EXCEPT !.seen = Seen(keeps, <<>>)]
  /\ sinceBurst = EmptyMap
  /\ ruleDetector = rules
  /\ sinks = Sinks
  /\ exitCode = -1

Started(rules) == StartedKeeping(rules, FALSE)

Init == Started(RuleBasedDetector(TRUE, maxCacheEntries))

\* "Track analysis time range based on parsed timestamps": the first entry
\* sets both ends, a later one moves the end it lies beyond
\* a range start that only the first entry sets
minTsOfFirstEntry(have, cur, ts) == IF ~have THEN ts ELSE cur

minTsAfter(have, cur, ts) == IF ~have \/ ts < cur THEN ts ELSE cur
maxTsAfter(have, cur, ts) == IF ~have \/ ts > cur THEN ts ELSE cur

\* lines the loop skipped: read, neither parsed nor malformed
skippedCount == lineNo - parsedCount - malformedCount

\* "if (line.empty()) continue;"
ReadBlank(line, limit) ==
  /\ pc = "reading"
  /\ lineNo < limit
  /\ skippedCount < MaxBlank
  /\ lineEmpty(line)
  /\ lineNo' = lineNo + 1
  /\ last' = Idle("blank", line)
  /\ UNCHANGED <<pc, parsedCount, malformedCount, emittedCount, haveTimeRange,
                 minTs, maxTs, report, parser, detectors, sinceBurst, outputs>>

\* the branch "if (!pr.entry.has_value())" of the loop
ReadMalformed(line, nowTp, limit) ==
  /\ pc = "reading"
  /\ lineNo < limit
  /\ malformedCount < MaxMalformed
  /\ ~lineEmpty(line)
  /\ ~parseLineDetailed(line).entry.ok
  /\ lineNo' = lineNo + 1
  /\ malformedCount' = malformedCount + 1
  /\ report' = addAnomalies(report, <<malformedAnomaly(parseLineDetailed(line), nowTp)>>)
  /\ emittedCount' = emittedCount + 1
  /\ last' = Idle("malformed", line)
  /\ UNCHANGED <<pc, parsedCount, haveTimeRange, minTs, maxTs, parser, detectors,
                 sinceBurst, outputs>>

\* "report.incrementLevelCount(entry.level(), /*isAnomaly=*/true)", made once
\* for every anomaly of the rule detector
RECURSIVE countedAsAnomalous(_, _, _)
countedAsAnomalous(r, level, times) ==
  IF times = 0 THEN r
  ELSE countedAsAnomalous(incrementLevelCount(r, level, TRUE), level, times - 1)

\* the rest of the loop body: a parsed entry goes through the statistics, the
\* analyzers and the detectors, whose anomalies are appended in that order
ReadEntry(line, limit) ==
  /\ pc = "reading"
  /\ lineNo < limit
  /\ ~lineEmpty(line)
  /\ parseLineDetailed(line).entry.ok
  /\ ~spins(timeWindow, parseLineDetailed(line).entry.v)
  /\ \E entry \in {parseLineDetailed(line).entry.v} :
     \E st \in {statProcessEntry(statDetector, entry)} :
     \E victim \in victims(ruleDetector) :
     LET checked == checkEntry(ruleDetector, entry, victim)
         ruleAnoms == matchesToAnomalies(checked.matches, entry)
         counted == countedAsAnomalous(
                      updateSourceStats(incrementLevelCount(report, entry.level, FALSE),
                                        entry.source, entry.level),
                      entry.level, Len(ruleAnoms))
         sp == spikeProcessEntry(spikeDetector, entry)
         br == burstProcessEntry(burstDetector, entry)
         ih == ipProcessEntry(ipDetector, entry)
         emitted == ruleAnoms
                      \o [i \in 1..Len(sp.out) |-> spikeAnomaly(sp.out[i])]
                      \o [i \in 1..Len(st.out) |-> statAnomaly(st.out[i], entry)]
                      \o [i \in 1..Len(br.out) |-> burstAnomaly(br.out[i])]
                      \o [i \in 1..Len(ih.out) |-> ipAnomaly(ih.out[i])]
         key == signature(entry)
         prior == Get(sinceBurst, key, -1)
         gap == IF prior = -1 THEN -1 ELSE prior + 1
     IN /\ lineNo' = lineNo + 1
        /\ parsedCount' = parsedCount + 1
        /\ haveTimeRange' = TRUE
        /\ minTs' = minTsAfter(haveTimeRange, minTs, entry.timestamp)
        /\ maxTs' = maxTsAfter(haveTimeRange, maxTs, entry.timestamp)
        /\ freq' = updateUnlocked(freq, entry)
        /\ timeWindow' = addEventUnlocked(timeWindow, entry)
        /\ pattern' = patternAddEntry(pattern, entry)
        /\ spikeDetector' = sp.states
        /\ statDetector' = st.sd
        /\ burstDetector' = br.states
        /\ ipDetector' = ih.counts
        /\ ruleDetector' = checked.rd
        /\ report' = addAnomalies(counted, emitted)
        /\ emittedCount' = emittedCount + Len(emitted)
        /\ last' = [Last("entry", line, sp.out, st.out, br.out, ih.out,
                         IF br.out # <<>> THEN gap ELSE -1)
                      EXCEPT !.rule = checked.matches,
                             !.seen = IF last.seen.on
                                        THEN Seen(TRUE, Append(last.seen.entries, entry))
                                        ELSE last.seen]
        /\ sinceBurst' = IF br.out # <<>> THEN Put(sinceBurst, key, 0)
                         ELSE IF prior = -1 THEN sinceBurst
                         ELSE Put(sinceBurst, key, gap)
  /\ UNCHANGED <<pc, malformedCount, parser, outputs>>

\* the anomalies the end-of-stream reviews add, in the order main() runs
\* them: FrequencyAnalyzer, PatternAnalyzer, TimeWindowAnalyzer
reviewAnomalies(nowTp, ind) ==
  LET freqAnoms == freqDetectAnomalies(freq)
      patAnoms == patternDetectAnomalies(pattern)
      twAnoms == detectAnomalies(timeWindow, ind)
      start == IF haveTimeRange THEN minTs ELSE nowTp
      end == IF haveTimeRange THEN maxTs ELSE nowTp
  IN [i \in 1..Len(freqAnoms) |->
        summaryAnomaly("FrequencySpike", freqAnoms[i], start, end)]
     \o [i \in 1..Len(patAnoms) |->
           summaryAnomaly("SequenceViolation", patAnoms[i], start, end)]
     \o [i \in 1..Len(twAnoms) |-> twAnomaly(twAnoms[i])]

\* after the loop: the end-of-stream reviews, then the totals and the range
Finish(nowTp) ==
  /\ pc = "reading"
  /\ \E ind \in Indeterminates(timeWindow) :
     \E added \in {reviewAnomalies(nowTp, ind)} :
        /\ report' = [addAnomalies(report, added) EXCEPT
                        !.m_totalEntries = parsedCount,
                        !.m_analysisStart = IF haveTimeRange THEN minTs ELSE nowTp,
                        !.m_analysisEnd = IF haveTimeRange THEN maxTs ELSE nowTp]
        /\ emittedCount' = emittedCount + Len(added)
  /\ pc' = "done"
  /\ last' = Idle("finish", NoLine)
  /\ UNCHANGED <<lineNo, parsedCount, malformedCount, haveTimeRange, minTs, maxTs,
                 parser, detectors, sinceBurst, outputs>>

\* Clock::now()
WallClock == {1793750400, 1793750460}

(***************************************************************************)
(* Input files                                                             *)
(***************************************************************************)
EmptyLine == Line(0, <<>>, FALSE)
CrLine == Line(0, <<>>, TRUE)
SpaceLine == Line(2, <<>>, FALSE)
JunkLine == Line(0, <<"this", "is", "not", "a", "log">>, FALSE)
ShortLine == Line(0, <<"2024-01-01 00:00:00", "ERROR", "timeout">>, FALSE)

TextLine(ts, level, src, msg) == Line(0, <<ts, level, src>> \o msg, FALSE)
JsonLine(ts, level, src, msg) ==
  Line(0, <<"{", "time", ts, "level", level, "service", src, "message", msg>>, FALSE)

\* files of mixed lines: blank, malformed, JSON and text, several sources
\* and levels, timestamps out of order
Lines ==
  {EmptyLine, CrLine, SpaceLine, JunkLine, ShortLine,
   JsonLine("2024-01-01T00:00:00", "ERROR", "svc1", "timeout"),
   JsonLine("2024-01-01 00:00:30", "INFO", "svc1", "timeout"),
   TextLine("2024-01-01 00:01:00", "ERROR", "svc2:", <<"login", "from", "10.0.0.7">>),
   TextLine("2024-01-01 00:01:30", "WARN", "[auth]", <<"cache", "miss", "for", "user", "42">>)}

Next ==
  \/ \E line \in Lines : ReadBlank(line, MaxLines)
  \/ \E line \in Lines, nowTp \in WallClock : ReadMalformed(line, nowTp, MaxLines)
  \/ \E line \in Lines : ReadEntry(line, MaxLines)
  \/ \E nowTp \in WallClock : Finish(nowTp)

Spec == Init /\ [][Next]_vars

\* files of one repeated message: up to MaxPrefix lines of any kind, then
\* lines that all have the signature of RepeatedLine and its timestamp
RepeatedLine ==
  TextLine("2024-01-01 00:00:00", "INFO", "svc2:", <<"cache", "miss", "for", "user", "42">>)

PrefixLines ==
  {EmptyLine, JunkLine,
   TextLine("2024-01-01 00:00:00", "INFO", "svc2:", <<"cache", "miss", "for", "user", "7">>),
   TextLine("2024-01-01 00:00:30", "ERROR", "svc2:", <<"cache", "miss", "for", "user", "42">>)}

NextBurst ==
  \/ \E line \in PrefixLines : ReadBlank(line, MaxPrefix)
  \/ \E line \in PrefixLines, nowTp \in WallClock : ReadMalformed(line, nowTp, MaxPrefix)
  \/ \E line \in PrefixLines : ReadEntry(line, MaxPrefix)
  \/ ReadEntry(RepeatedLine, MaxBurstLines)
  \/ \E nowTp \in WallClock : Finish(nowTp)

SpecBurst == Init /\ [][NextBurst]_vars

\* files of log-in lines: the first MaxIpMixed lines come from either of two
\* addresses (the first MaxPrefix may also be blank or malformed), the lines
\* after them from the second address
IpX == "10.0.0.7"
IpY == "10.0.0.1"

IpLine(ip) ==
  TextLine("2024-01-01 00:00:00", "INFO", "svc2:", <<"login", "from", ip>>)

NextRareIp ==
  \/ \E line \in PrefixLines : ReadBlank(line, MaxPrefix)
  \/ \E line \in PrefixLines, nowTp \in WallClock : ReadMalformed(line, nowTp, MaxPrefix)
  \/ \E ip \in {IpX, IpY} : ReadEntry(IpLine(ip), MaxIpMixed)
  \/ ReadEntry(IpLine(IpY), MaxIpLines)
  \/ \E nowTp \in WallClock : Finish(nowTp)

SpecRareIp == Init /\ [][NextRareIp]_vars

\* files with quiet periods: lines at 00:00:00, 00:05:01 and 00:10:00 in any
\* order, after up to MaxPrefix lines of any kind
SilenceLines ==
  {JsonLine("2024-01-01 00:00:00", "INFO", "svc1", "timeout"),
   JsonLine("2024-01-01 00:05:01", "INFO", "svc1", "timeout"),
   JsonLine("2024-01-01 00:10:00", "ERROR", "svc1", "timeout")}

NextSilence ==
  \/ \E line \in PrefixLines : ReadBlank(line, MaxPrefix)
  \/ \E line \in PrefixLines, nowTp \in WallClock : ReadMalformed(line, nowTp, MaxPrefix)
  \/ \E line \in SilenceLines : ReadEntry(line, MaxSilenceLines)
  \/ \E nowTp \in WallClock : Finish(nowTp)

SpecSilence == Init /\ [][NextSilence]_vars

\* LogParser::addPattern called on the shared parser between two lines
AddPattern(newPattern) ==
  /\ pc = "reading"
  /\ Len(parser.m_patterns) < MaxPatterns
  /\ parser' = addPattern(parser, newPattern)
  /\ last' = Idle("addPattern", NoLine)
  /\ UNCHANGED <<pc, lineNo, parsedCount, malformedCount, emittedCount,
                 haveTimeRange, minTs, maxTs, report, detectors, sinceBurst,
                 outputs>>

\* LogParser::clearPatterns called on the shared parser between two lines
ClearPatterns ==
  /\ pc = "reading"
  /\ parser' = clearPatterns(parser)
  /\ last' = Idle("clearPatterns", NoLine)
  /\ UNCHANGED <<pc, lineNo, parsedCount, malformedCount, emittedCount,
                 haveTimeRange, minTs, maxTs, report, detectors, sinceBurst,
                 outputs>>

\* lines of every form the parser distinguishes: indented and CRLF text,
\* a date before 2000, a level word inside the message, a bracketed source
\* with and without a "svc:" token, no level word, an ISO date in a text
\* line, JSON with and without a message body
IndentedCrLine ==
  Line(2, <<"2000-01-01 00:00:30", "INFO", "svc1:", "login", "from", "10.0.0.7">>, TRUE)
Pre2000Line == TextLine("1999-12-31 23:59:59", "INFO", "svc1:", <<"cache", "miss">>)
DbLine == TextLine("2000-01-01 00:00:30", "ERROR", "db:", <<"info", "missing">>)
BracketLine == TextLine("2000-01-01 00:00:30", "WARN", "[auth]", <<"cache", "miss">>)
NoLevelLine == TextLine("2000-01-01 00:00:30", "svc2:", "[auth]", <<"cache", "miss">>)
IsoTextLine == TextLine("2000-01-01T00:00:30", "DEBUG", "svc2:", <<"cache", "miss">>)
EmptyMessageJson == JsonLine("2000-01-01T00:00:30", "ERROR", "svc1", "")
Pre2000Json == JsonLine("1999-12-31 23:59:59", "WARN", "svc2", "timeout")

ParseLines ==
  {EmptyLine, CrLine, JunkLine, IndentedCrLine, Pre2000Line, DbLine, BracketLine,
   NoLevelLine, IsoTextLine, EmptyMessageJson, Pre2000Json,
   JsonLine("2000-01-01 00:00:30", "INFO", "svc1", "timeout")}

CustomPatterns == {"%timestamp% %level% %message%"}

NextParser ==
  \/ \E line \in ParseLines : ReadBlank(line, MaxParseLines)
  \/ \E line \in ParseLines, nowTp \in WallClock : ReadMalformed(line, nowTp, MaxParseLines)
  \/ \E line \in ParseLines : ReadEntry(line, MaxParseLines)
  \/ \E newPattern \in CustomPatterns : AddPattern(newPattern)
  \/ ClearPatterns
  \/ \E nowTp \in WallClock : Finish(nowTp)

SpecParser == Init /\ [][NextParser]_vars

\* setMaxAnomalies of a sink
SetMaxAnomalies(sink, count) ==
  /\ pc = "reading"
  /\ sinks[sink].m_maxAnomalies # count
  /\ sinks' = [sinks EXCEPT ![sink].m_maxAnomalies = count]
  /\ last' = Idle("setMaxAnomalies", NoLine)
  /\ UNCHANGED <<pc, lineNo, parsedCount, malformedCount, emittedCount,
                 haveTimeRange, minTs, maxTs, report, parser, detectors, sinceBurst,
                 exitCode>>

\* "if (opts.json) { ... json.generateReport(report); ... }"
ExportJson(keepTies) ==
  /\ pc = "done"
  /\ sinks' = [sinks EXCEPT !.json = jsonGenerateReport(@, report, keepTies)]
  /\ pc' = "json"
  /\ last' = Idle("json", NoLine)
  /\ UNCHANGED <<lineNo, parsedCount, malformedCount, emittedCount, haveTimeRange,
                 minTs, maxTs, report, parser, detectors, sinceBurst, exitCode>>

\* "if (opts.csv) { ... csv.generateReport(report); ... }"
ExportCsv(keepTies) ==
  /\ pc \in {"done", "json"}
  /\ sinks' = [sinks EXCEPT !.csv = csvGenerateReport(@, report, keepTies)]
  /\ pc' = "csv"
  /\ last' = Idle("csv", NoLine)
  /\ UNCHANGED <<lineNo, parsedCount, malformedCount, emittedCount, haveTimeRange,
                 minTs, maxTs, report, parser, detectors, sinceBurst, exitCode>>

\* the summary generator and the return statements of main()
Exit(keepTies) ==
  /\ pc \in {"done", "json", "csv"}
  /\ \E g \in {generatorGenerateReport(sinks.gen, report, keepTies)} :
       /\ sinks' = [sinks EXCEPT !.gen = g]
       /\ exitCode' = exitCodeOf(report, g)
  /\ pc' = "exited"
  /\ last' = Idle("exit", NoLine)
  /\ UNCHANGED <<lineNo, parsedCount, malformedCount, emittedCount, haveTimeRange,
                 minTs, maxTs, report, parser, detectors, sinceBurst>>

\* the caps a caller sets: none, and one below the number of anomalies
Caps == {0, 2}

\* files of log-in lines from two addresses with up to MaxPrefix blank or
\* malformed lines among them, exported to every sink
NextReport ==
  \/ \E line \in PrefixLines \cup {SpaceLine} : ReadBlank(line, MaxReportLines)
  \/ \E line \in PrefixLines \cup {SpaceLine}, nowTp \in WallClock :
       ReadMalformed(line, nowTp, MaxReportLines)
  \/ \E ip \in {IpX, IpY} : ReadEntry(IpLine(ip), MaxReportLines)
  \/ \E sink \in DOMAIN Sinks, count \in Caps : SetMaxAnomalies(sink, count)
  \/ \E nowTp \in WallClock : Finish(nowTp)
  \/ \E keepTies \in BOOLEAN : ExportJson(keepTies)
  \/ \E keepTies \in BOOLEAN : ExportCsv(keepTies)
  \/ \E keepTies \in BOOLEAN : Exit(keepTies)

SpecReport == Init /\ [][NextReport]_vars

\* TimeWindowAnalyzer::setWindowSize called between two lines
SetWindowSize(size) ==
  /\ pc = "reading"
  /\ timeWindow.m_windowSize # size
  /\ timeWindow' = setWindowSize(timeWindow, size)
  /\ last' = Idle("setWindowSize", NoLine)
  /\ UNCHANGED <<pc, lineNo, parsedCount, malformedCount, emittedCount,
                 haveTimeRange, minTs, maxTs, report, parser, freq, pattern,
                 spikeDetector, statDetector, burstDetector, ipDetector, ruleDetector,
                 sinceBurst, outputs>>

\* the loop body for a parsed entry on which timeWindow.addEntry never
\* returns: the statements before that call have run, the rest never does
ReadEntryStalls(line, limit) ==
  /\ pc = "reading"
  /\ lineNo < limit
  /\ ~lineEmpty(line)
  /\ parseLineDetailed(line).entry.ok
  /\ spins(timeWindow, parseLineDetailed(line).entry.v)
  /\ \E entry \in {parseLineDetailed(line).entry.v} :
       /\ lineNo' = lineNo + 1
       /\ parsedCount' = parsedCount + 1
       /\ haveTimeRange' = TRUE
       /\ minTs' = minTsAfter(haveTimeRange, minTs, entry.timestamp)
       /\ maxTs' = maxTsAfter(haveTimeRange, maxTs, entry.timestamp)
       /\ report' = updateSourceStats(incrementLevelCount(report, entry.level, FALSE),
                                      entry.source, entry.level)
       /\ freq' = updateUnlocked(freq, entry)
       /\ timeWindow' = initialized(timeWindow, entry.timestamp)
  /\ pc' = "stalled"
  /\ last' = Idle("stalled", line)
  /\ UNCHANGED <<malformedCount, emittedCount, parser, pattern, spikeDetector,
                 statDetector, burstDetector, ipDetector, ruleDetector, sinceBurst,
                 outputs>>

\* files of log-in lines a quarter of an hour apart, in any order
WindowLine(ts) == TextLine(ts, "INFO", "svc2:", <<"login", "from", "10.0.0.7">>)

WindowLines ==
  {WindowLine("2024-01-01 00:00:00"), WindowLine("2024-01-01 00:05:01"),
   WindowLine("2024-01-01 00:10:00"), WindowLine("2024-01-01 00:15:00")}

NextWindow ==
  \/ \E line \in PrefixLines : ReadBlank(line, MaxPrefix)
  \/ \E line \in PrefixLines, nowTp \in WallClock : ReadMalformed(line, nowTp, MaxPrefix)
  \/ \E line \in WindowLines : ReadEntry(line, MaxWindowLines)
  \/ \E nowTp \in WallClock : Finish(nowTp)

SpecWindow == Init /\ [][NextWindow]_vars

\* the window sizes a caller sets
WindowSizes == {0, 30}

\* the same files, read while a caller changes the window size
NextWindowSize ==
  \/ \E line \in WindowLines : ReadEntry(line, MaxWindowSizeLines)
  \/ \E line \in WindowLines : ReadEntryStalls(line, MaxWindowSizeLines)
  \/ \E size \in WindowSizes : SetWindowSize(size)
  \/ \E nowTp \in WallClock : Finish(nowTp)

SpecWindowSize == Init /\ [][NextWindowSize]_vars

\* files for the spike detector: lines at 00:00:00, then lines five minutes
\* later, outside the short window and inside the baseline window of the
\* first, among them lines whose "service" is the empty string
OldLine == WindowLine("2024-01-01 00:00:00")
NewLine == WindowLine("2024-01-01 00:05:01")
NoSourceLine == JsonLine("2024-01-01 00:05:01", "INFO", "", "timeout")

NextSpike ==
  \/ (~haveTimeRange \/ maxTs = parseTimestamp("2024-01-01 00:00:00").v)
       /\ ReadEntry(OldLine, MaxSpikeOld)
  \/ \E line \in {NewLine} : ReadEntry(line, MaxSpikeLines)
  \/ \E line \in {NoSourceLine} : (parsedCount < MaxPrefix /\ ReadEntry(line, MaxSpikeLines))
  \/ \E nowTp \in WallClock : Finish(nowTp)

SpecSpike == Init /\ [][NextSpike]_vars

\* files for the statistical detector: lines a quarter of an hour apart, so
\* that every line finds the rate window empty, and from line QuietLines on
\* lines that repeat the timestamp of the line before, to the end of the file
QuarterHours ==
  <<"2024-01-01 00:00:00",
    "2024-01-01 00:15:00",
    "2024-01-01 00:30:00",
    "2024-01-01 00:45:00",
    "2024-01-01 01:00:00",
    "2024-01-01 01:15:00",
    "2024-01-01 01:30:00",
    "2024-01-01 01:45:00",
    "2024-01-01 02:00:00",
    "2024-01-01 02:15:00",
    "2024-01-01 02:30:00",
    "2024-01-01 02:45:00",
    "2024-01-01 03:00:00">>

StatLine(k) == WindowLine(QuarterHours[k])

\* no line read so far repeated the timestamp of the line before it
noRepeatYet ==
  \A source \in DOMAIN statDetector.m_recentBySource :
    Len(statDetector.m_recentBySource[source]) <= 1

\* the line that repeats the latest timestamp
RepeatLine ==
  StatLine(CHOOSE k \in 1..Len(QuarterHours) : parseTimestamp(QuarterHours[k]).v = maxTs)

NextStat ==
  \/ (noRepeatYet /\ lineNo < Len(QuarterHours)
         /\ ReadEntry(StatLine(lineNo + 1), MaxStatLines))
  \/ (lineNo >= QuietLines /\ ReadEntry(RepeatLine, MaxStatLines))
  \/ \E nowTp \in WallClock : Finish(nowTp)

SpecStat == Init /\ [][NextStat]_vars

\* a caller changes the sequence window of the pattern analyzer
SetSequenceWindowSize(size) ==
  /\ pc = "reading"
  /\ pattern.m_sequenceWindowSize # size
  /\ pattern' = setSequenceWindowSize(pattern, size)
  /\ last' = Idle("setSequenceWindowSize", NoLine)
  /\ UNCHANGED <<pc, lineNo, parsedCount, malformedCount, emittedCount,
                 haveTimeRange, minTs, maxTs, report, parser, freq, timeWindow,
                 spikeDetector, statDetector, burstDetector, ipDetector, ruleDetector,
                 sinceBurst, outputs>>

\* a caller changes the number of examples a pattern keeps
SetMaxPatternExamples(count) ==
  /\ pc = "reading"
  /\ pattern.m_maxPatternExamples # count
  /\ pattern' = setMaxPatternExamples(pattern, count)
  /\ last' = Idle("setMaxPatternExamples", NoLine)
  /\ UNCHANGED <<pc, lineNo, parsedCount, malformedCount, emittedCount,
                 haveTimeRange, minTs, maxTs, report, parser, freq, timeWindow,
                 spikeDetector, statDetector, burstDetector, ipDetector, ruleDetector,
                 sinceBurst, outputs>>

\* files for the pattern analyzer: lines of two signatures, and a caller
\* that narrows the sequence window and the number of examples
PatternLines ==
  {RepeatedLine,
   TextLine("2024-01-01 00:00:00", "ERROR", "svc1:", <<"disk", "full">>)}

SequenceWindowSizes == {2}
ExampleCounts == {1}

NextPattern ==
  \/ \E line \in PatternLines : ReadEntry(line, MaxPatternLines)
  \/ \E size \in SequenceWindowSizes : SetSequenceWindowSize(size)
  \/ \E count \in ExampleCounts : SetMaxPatternExamples(count)
  \/ \E nowTp \in WallClock : Finish(nowTp)

SpecPattern == Init /\ [][NextPattern]_vars

\* files for the sequence counts: the lines of PatternLines, read by a main()
\* that keeps the default sequence window or narrows it before the first line
SequenceWindows == {2, 3}

InitSequence == StartedKeeping(RuleBasedDetector(TRUE, maxCacheEntries), TRUE)

NextSequence ==
  \/ \E line \in PatternLines : ReadEntry(line, MaxSequenceLines)
  \/ \E size \in SequenceWindows : (last.op = "init" /\ SetSequenceWindowSize(size))
  \/ \E nowTp \in WallClock : Finish(nowTp)

SpecSequence == InitSequence /\ [][NextSequence]_vars

\* files for the end-of-stream review of the windows: lines in time order,
\* with and without errors, up to thirteen minutes after the first
ErrorLine(ts) == TextLine(ts, "ERROR", "svc1:", <<"disk", "full">>)

EvictionLines ==
  {ErrorLine("2024-01-01 00:00:00"), WindowLine("2024-01-01 00:00:00"),
   WindowLine("2024-01-01 00:06:00"),
   ErrorLine("2024-01-01 00:12:00"), WindowLine("2024-01-01 00:12:00"),
   WindowLine("2024-01-01 00:13:00")}

inOrder(line) ==
  ~haveTimeRange \/ parseLineDetailed(line).entry.v.timestamp >= maxTs

NextEviction ==
  \/ \E line \in EvictionLines : (inOrder(line) /\ ReadEntry(line, MaxEvictionLines))
  \/ \E nowTp \in WallClock : Finish(nowTp)

SpecEviction == InitSequence /\ [][NextEviction]_vars

\* the rule set is changed at most once before the first line and once
\* after every line read
mayChangeRules == pc = "reading" /\ last.op \in {"init", "entry"}

\* a caller adds a rule, or replaces the rule of an id the index knows
AddRule(rule, keepTies) ==
  /\ mayChangeRules
  /\ (rule.id \in DOMAIN ruleDetector.m_ruleIdIndex
        \/ Len(ruleDetector.m_compiledRules) < MaxRules)
  /\ ruleDetector' = addRule(ruleDetector, rule, keepTies).rd
  /\ last' = Idle("addRule", NoLine)
  /\ UNCHANGED <<pc, lineNo, parsedCount, malformedCount, emittedCount,
                 haveTimeRange, minTs, maxTs, report, parser, freq, timeWindow,
                 pattern, spikeDetector, statDetector, burstDetector, ipDetector,
                 sinceBurst, outputs>>

\* a caller removes the rule of an id
RemoveRule(ruleId) ==
  /\ mayChangeRules
  /\ ruleDetector' = removeRule(ruleDetector, ruleId).rd
  /\ last' = Idle("removeRule", NoLine)
  /\ UNCHANGED <<pc, lineNo, parsedCount, malformedCount, emittedCount,
                 haveTimeRange, minTs, maxTs, report, parser, freq, timeWindow,
                 pattern, spikeDetector, statDetector, burstDetector, ipDetector,
                 sinceBurst, outputs>>

\* a caller gives the rule of an id a new configuration
UpdateRule(ruleId, newConfig, keepTies) ==
  /\ mayChangeRules
  /\ ruleDetector' = updateRule(ruleDetector, ruleId, newConfig, keepTies).rd
  /\ last' = Idle("updateRule", NoLine)
  /\ UNCHANGED <<pc, lineNo, parsedCount, malformedCount, emittedCount,
                 haveTimeRange, minTs, maxTs, report, parser, freq, timeWindow,
                 pattern, spikeDetector, statDetector, burstDetector, ipDetector,
                 sinceBurst, outputs>>

\* a caller enables or disables the rule of an id
SetRuleEnabled(ruleId, enabled) ==
  /\ mayChangeRules
  /\ ruleDetector' = setRuleEnabled(ruleDetector, ruleId, enabled).rd
  /\ last' = Idle("setRuleEnabled", NoLine)
  /\ UNCHANGED <<pc, lineNo, parsedCount, malformedCount, emittedCount,
                 haveTimeRange, minTs, maxTs, report, parser, freq, timeWindow,
                 pattern, spikeDetector, statDetector, burstDetector, ipDetector,
                 sinceBurst, outputs>>

\* a caller loads the rules of a configuration
LoadRules(items, merge, keepTies) ==
  /\ mayChangeRules
  /\ (~merge \/ Len(ruleDetector.m_compiledRules) + Len(items) <= MaxRules)
  /\ ruleDetector' = loadRules(ruleDetector, items, merge, keepTies).rd
  /\ last' = Idle("loadRules", NoLine)
  /\ UNCHANGED <<pc, lineNo, parsedCount, malformedCount, emittedCount,
                 haveTimeRange, minTs, maxTs, report, parser, freq, timeWindow,
                 pattern, spikeDetector, statDetector, burstDetector, ipDetector,
                 sinceBurst, outputs>>

\* the ids, rules and configurations a caller uses, and the lines read
RuleIds == {"error_keyword", "critical_keyword", "disk_keyword"}

Rules ==
  {RuleConfig("disk_keyword", "disk_keyword", "KEYWORD", RulePriority.HIGH, "disk",
              Frac(1, 2), TRUE),
   RuleConfig("deep_pattern", "critical_keyword", "PATTERN", RulePriority.LOW, "disk",
              Frac(1, 2), TRUE)}

Configurations ==
  {<<[key |-> "rule.disk", name |-> "disk", type |-> "KEYWORD", condition |-> "disk",
      enabled |-> TRUE]>>}

RuleLines ==
  {TextLine("2024-01-01 00:00:00", "ERROR", "svc1:", <<"disk", "error">>),
   TextLine("2024-01-01 00:00:00", "INFO", "svc1:", <<"disk", "full">>)}

\* a detector constructed with a cache of CacheEntries entries
InitRules == Started(RuleBasedDetector(TRUE, CacheEntries))

NextRules ==
  \/ \E line \in RuleLines : ReadEntry(line, MaxRuleLines)
  \/ \E rule \in Rules, keepTies \in BOOLEAN : AddRule(rule, keepTies)
  \/ \E ruleId \in RuleIds : RemoveRule(ruleId)
  \/ \E ruleId \in RuleIds, newConfig \in Rules, keepTies \in BOOLEAN :
       UpdateRule(ruleId, newConfig, keepTies)
  \/ \E ruleId \in RuleIds, enabled \in BOOLEAN : SetRuleEnabled(ruleId, enabled)
  \/ \E items \in Configurations, merge \in BOOLEAN, keepTies \in BOOLEAN :
       LoadRules(items, merge, keepTies)
  \/ \E nowTp \in WallClock : Finish(nowTp)

SpecRules == InitRules /\ [][NextRules]_vars

(***************************************************************************)
(* Observers used by the properties                                        *)
(***************************************************************************)
\* the positions of the report's anomalies of one type
anomaliesOfType(type) ==
  {i \in 1..Len(report.m_anomalies) : report.m_anomalies[i].type = type}

\* the step just taken read a line (the line is last.line)
readLine == last.op \in {"blank", "malformed", "entry"}

\* the parsed entries in input order, as PatternAnalyzer keeps them while
\* there are no more than m_sequenceWindowSize of them
parsedEntries == pattern.m_recentEvents

(***************************************************************************)
(* Burst repetition (BurstPatternDetector, SpecBurst)                      *)
(***************************************************************************)
\* C1: while all entries stay inside the window, a burst returned for a
\* signature that has already returned one comes only after at least
\* m_minRepeats - ceil(m_minRepeats / 2) further entries of that signature.
BurstCooldown ==
  (last.burst # <<>> /\ last.burstGap # -1 /\ maxTs - minTs <= m_window)
    => last.burstGap >= m_minRepeats - ((m_minRepeats + 1) \div 2)

\* C2: in a run of up to 25 entries of one signature inside one window the
\* 20th entry, and no other, returns a burst, so that from the 20th entry on
\* the report holds exactly one SequenceViolation.
OneViolationOnTwentieth ==
  (/\ last.op = "entry"
   /\ Cardinality(DOMAIN burstDetector) = 1
   /\ maxTs - minTs <= m_window
   /\ parsedCount <= 25)
    => /\ (last.burst # <<>>) <=> (parsedCount = m_minRepeats)
       /\ Cardinality(anomaliesOfType("SequenceViolation"))
            = IF parsedCount >= m_minRepeats THEN 1 ELSE 0

(***************************************************************************)
(* Quiet periods (TimeWindowAnalyzer, SpecSilence)                         *)
(***************************************************************************)
\* two consecutive parsed entries lie more than m_silenceThreshold apart
quietPeriods ==
  {i \in 1..(Len(parsedEntries) - 1) :
     parsedEntries[i + 1].timestamp - parsedEntries[i].timestamp > m_silenceThreshold}

\* C3: when two consecutive parsed entries lie more than m_silenceThreshold
\* apart, the final report holds exactly one Silence anomaly; its score is at
\* least 1 and its window starts inside the quiet period.
SilenceReported ==
  (pc = "done" /\ parsedCount <= m_sequenceWindowSize /\ quietPeriods # {})
    => /\ Cardinality(anomaliesOfType("Silence")) = 1
       /\ \A i \in anomaliesOfType("Silence") :
            /\ FracGeq(report.m_anomalies[i].score, Frac(1, 1))
            /\ \E q \in quietPeriods :
                 /\ parsedEntries[q].timestamp <= report.m_anomalies[i].windowStart
                 /\ report.m_anomalies[i].windowStart <= parsedEntries[q + 1].timestamp

(***************************************************************************)
(* Rare addresses (IpFrequencyDetector, SpecRareIp)                        *)
(***************************************************************************)
\* the counts carried by the RarePattern anomalies of one address, in report
\* order
rareCounts(ip) ==
  LET at == SelectSeq([i \in 1..Len(report.m_anomalies) |-> i],
                      LAMBDA i : /\ report.m_anomalies[i].type = "RarePattern"
                                 /\ report.m_anomalies[i].description.args[2] = ip)
  IN [k \in 1..Len(at) |-> report.m_anomalies[at[k]].description.args[1]]

\* the scenario: the first address came exactly m_maxCountForRare times, the
\* second more often
RareIpScenario ==
  /\ pc = "done"
  /\ Get(ipDetector, IpX, 0) = m_maxCountForRare
  /\ Get(ipDetector, IpY, 0) > m_maxCountForRare

\* C4 as stated: in the scenario the report holds m_maxCountForRare
\* RarePattern anomalies for the first address and none for the second.
NoRarePatternForFrequentIp ==
  RareIpScenario
    => /\ Len(rareCounts(IpX)) = m_maxCountForRare
       /\ Len(rareCounts(IpY)) = 0

\* C4 as amended: in the scenario the report holds m_maxCountForRare
\* RarePattern anomalies for each address, those of its first occurrences.
FirstOccurrencesOfEveryIp ==
  RareIpScenario
    => /\ rareCounts(IpX) = [k \in 1..m_maxCountForRare |-> k]
       /\ rareCounts(IpY) = [k \in 1..m_maxCountForRare |-> k]

RareIpScenarioReached == RareIpScenario /\ Len(rareCounts(IpY)) > 0

\* C5: processEntry returns a hit for an entry with an address exactly when
\* the address's counter after the increment is at most m_maxCountForRare;
\* so the hits of an address are those of its first min(occurrences,
\* m_maxCountForRare) occurrences.
HitIffCountAtMostCutoff ==
  /\ (last.op = "entry" /\ extractIp(parsedEntries[Len(parsedEntries)].message).ok)
       => LET ip == extractIp(parsedEntries[Len(parsedEntries)].message).v
          IN /\ (last.ip # <<>>) <=> (ipDetector[ip] <= m_maxCountForRare)
             /\ Len(last.ip) <= 1
             /\ last.ip # <<>> =>
                  /\ last.ip[1].ip = ip
                  /\ last.ip[1].count = ipDetector[ip]
  /\ \A ip \in DOMAIN ipDetector :
       rareCounts(ip) = [k \in 1..Min(ipDetector[ip], m_maxCountForRare) |-> k]

LaterOccurrenceSilent ==
  /\ last.op = "entry"
  /\ last.ip = <<>>
  /\ Get(ipDetector, IpY, 0) > m_maxCountForRare
  /\ Get(ipDetector, IpX, 0) \in 1..(m_maxCountForRare - 1)

(***************************************************************************)
(* The error-rate scenario                                                 *)
(***************************************************************************)
\* the buckets the analyzer holds at the end of the stream
buckets ==
  {timeWindow.m_currentWindow}
    \cup {timeWindow.m_windowHistory[i] : i \in 1..Len(timeWindow.m_windowHistory)}

\* the buckets whose entries are all of svc1 and whose error rate is above the
\* threshold
svc1ErrorBuckets ==
  {b \in buckets : /\ DOMAIN b.sourceCounts = {"svc1"}
                   /\ errorRateExceeds(calculateStats(b))}

\* C6: when a 60 s bucket holds entries of svc1 with an error rate above the
\* threshold, the final report has a FrequencySpike anomaly whose source is
\* svc1, whose window is the bucket's and whose severity is Medium or more.
ErrorRateSpikeNamesSvc1 ==
  pc = "done" =>
    \A b \in svc1ErrorBuckets :
      \E i \in anomaliesOfType("FrequencySpike") :
        /\ report.m_anomalies[i].source = Some("svc1")
        /\ report.m_anomalies[i].windowStart = b.start
        /\ report.m_anomalies[i].windowEnd = b.end
        /\ SeverityRank(report.m_anomalies[i].severity) >= SeverityRank("Medium")

(***************************************************************************)
(* Malformed and blank lines                                               *)
(***************************************************************************)
\* what a line that is not an entry must leave alone
entriesUntouched ==
  /\ parsedCount' = parsedCount
  /\ report'.m_totalEntries = report.m_totalEntries
  /\ report'.m_levelStats = report.m_levelStats
  /\ report'.m_sourceStats = report.m_sourceStats
  /\ <<haveTimeRange, minTs, maxTs>>' = <<haveTimeRange, minTs, maxTs>>
  /\ detectors' = detectors

\* a step that reads a line that is not blank and does not parse
readsMalformed ==
  /\ lineNo' = lineNo + 1
  /\ trimSv(last'.line) # <<>>
  /\ ~parseLineDetailed(last'.line).entry.ok

\* C7: a non-blank line that fails to parse appends exactly one anomaly, of
\* type Other, severity Low, score 1.0, source "parser" and a description that
\* starts "Malformed log line:", changes neither the entry count, the level
\* and source statistics, the time range nor any detector, and the loop goes on.
MalformedLineIsOneAnomaly ==
  [][readsMalformed =>
       /\ Len(report'.m_anomalies) = Len(report.m_anomalies) + 1
       /\ SubSeq(report'.m_anomalies, 1, Len(report.m_anomalies)) = report.m_anomalies
       /\ \E a \in {report'.m_anomalies[Len(report'.m_anomalies)]} :
            /\ a.type = "Other"
            /\ a.severity = "Low"
            /\ a.score = Frac(1, 1)
            /\ a.source = Some("parser")
            /\ a.description.text = "Malformed log line: "
       /\ malformedCount' = malformedCount + 1
       /\ entriesUntouched
       /\ pc' = "reading"]_vars

\* a malformed line was read after entries had been parsed and counted
MalformedAfterEntries ==
  /\ last.op = "malformed"
  /\ trimSv(last.line) # <<>>
  /\ parsedCount > 0
  /\ report.m_levelStats # EmptyMap
  /\ Len(report.m_anomalies) > 1

\* C8: a blank line, one that is empty or is empty once its carriage return
\* and the whitespace around it are stripped, adds no anomaly, is not counted
\* as malformed and changes no counter and no detector.
BlankLineIgnored ==
  [][(lineNo' = lineNo + 1 /\ trimSv(last'.line) = <<>>) =>
       /\ report' = report
       /\ malformedCount' = malformedCount
       /\ emittedCount' = emittedCount
       /\ entriesUntouched]_vars

(***************************************************************************)
(* Counts and time range                                                   *)
(***************************************************************************)
levelCount(r, level) == Get(r.m_levelStats, level, LevelStats).count

sumOfLevelCounts(r) ==
  SumSeq([i \in 1..Len(iteration(LogLevel)) |-> levelCount(r, iteration(LogLevel)[i])])

\* C9: a parsed entry adds one to the count of parsed entries and one to the
\* count of its level and nothing to any other level; the final total_entries
\* is the number of parsed lines and the sum of the level counts.
ParsedEntryCountedOnce ==
  [][/\ (last'.op = "entry" /\ lineNo' = lineNo + 1) =>
          /\ parsedCount' = parsedCount + 1
          /\ \A l \in LogLevel :
               levelCount(report', l) = levelCount(report, l)
                 + (IF l = parseLineDetailed(last'.line).entry.v.level THEN 1 ELSE 0)
     /\ (last'.op # "entry") => parsedCount' = parsedCount
     /\ (pc' = "done" /\ parsedCount' <= m_sequenceWindowSize) =>
          /\ report'.m_totalEntries = Len(parsedEntries')
          /\ report'.m_totalEntries = sumOfLevelCounts(report')]_vars

\* the report is final and entries of two levels were counted
TwoLevelsCounted ==
  /\ pc = "done"
  /\ report.m_totalEntries >= 3
  /\ Cardinality({l \in LogLevel : levelCount(report, l) > 0}) >= 2

timestamps == {parsedEntries[i].timestamp : i \in 1..Len(parsedEntries)}

\* C10: with at least one parsed entry, in any order of timestamps, the final
\* analysis_start is the least and analysis_end the greatest of the parsed
\* entries' timestamps.
RangeCoversParsedTimestamps ==
  (pc = "done" /\ parsedCount \in 1..m_sequenceWindowSize) =>
    /\ report.m_analysisStart \in timestamps
    /\ report.m_analysisEnd \in timestamps
    /\ \A t \in timestamps : report.m_analysisStart <= t /\ t <= report.m_analysisEnd

\* the report is final, and the entries did not come in the order of their
\* timestamps: the last one read is older than one before it and the first
\* one is not the oldest
OutOfOrderStream ==
  /\ pc = "done"
  /\ Len(parsedEntries) >= 3
  /\ parsedEntries[Len(parsedEntries)].timestamp < report.m_analysisEnd
  /\ parsedEntries[1].timestamp > report.m_analysisStart

(***************************************************************************)
(* Two runs on the same input                                              *)
(***************************************************************************)
\* A second run that has read the same lines is in the same state as this
\* one, and differs from it in what its clock reads and in what a score
\* that was never assigned holds.  outcomes is the set of anomaly lists a
\* run may hold after the step just taken.
outcomes ==
  IF last'.op = "malformed"
    THEN {report.m_anomalies \o <<malformedAnomaly(parseLineDetailed(last'.line), nowTp)>> :
            nowTp \in WallClock}
  ELSE IF last'.op = "finish"
    THEN {report.m_anomalies \o reviewAnomalies(nowTp, ind) :
            nowTp \in WallClock, ind \in Indeterminates(timeWindow)}
  ELSE {report'.m_anomalies}

withoutWindow(as) ==
  [i \in 1..Len(as) |-> [as[i] EXCEPT !.windowStart = 0, !.windowEnd = 0]]

\* the anomalies up to the end of the FrequencyAnalyzer and PatternAnalyzer
\* scans: all of them before the end of the stream
uptoScans(as) ==
  IF last'.op = "finish"
    THEN SubSeq(as, 1, Len(report.m_anomalies) + Len(freqDetectAnomalies(freq))
                         + Len(patternDetectAnomalies(pattern)))
    ELSE as

largestConfiguredCount ==
  Max(m_minRepeats, Max(m_maxHistoryWindows, m_sequenceWindowSize))

\* a bound that depends on the configuration and on the number of distinct
\* sources seen, and not on the number of entries
dequeBound == largestConfiguredCount * Cardinality(DOMAIN freq.m_sourceCounts)

\* C12: whatever the stream, no deque of a detector (the short and long
\* deques of SpikeDetector, the per-source deque of StatisticalDetector, the
\* event list of the current bucket, the per-signature deque of
\* BurstPatternDetector, the recent entries of PatternAnalyzer) grows past a
\* bound given by the configuration and the number of distinct sources, however
\* many entries share one timestamp.
DequesBounded ==
  /\ \A src \in DOMAIN spikeDetector :
       /\ Len(spikeDetector[src].recentEvents) <= dequeBound
       /\ Len(spikeDetector[src].baselineEvents) <= dequeBound
  /\ \A src \in DOMAIN statDetector.m_recentBySource :
       Len(statDetector.m_recentBySource[src]) <= dequeBound
  /\ Len(timeWindow.m_currentWindow.events) <= dequeBound
  /\ \A key \in DOMAIN burstDetector : Len(burstDetector[key]) <= dequeBound
  /\ Len(pattern.m_recentEvents) <= dequeBound

(***************************************************************************)
(* Order of the report                                                     *)
(***************************************************************************)
\* the anomalies the step just taken appended
appended ==
  SubSeq(report'.m_anomalies, Len(report.m_anomalies) + 1, Len(report'.m_anomalies))

\* the place of an anomaly of an entry in the order of the detectors
detectorRank(a) ==
  CASE a.type = "FrequencySpike" -> 1 [] a.type = "StatisticalOutlier" -> 2
    [] a.type = "SequenceViolation" -> 3 [] a.type = "RarePattern" -> 4
    [] OTHER -> 0

\* the place of an end-of-stream anomaly in the order of the reviews
reviewRank(a) ==
  CASE a.description.text \in {"Source spike", "Rare message pattern"} -> 1
    [] a.description.text \in {"Novel high-severity pattern", "New sequence pattern"} -> 2
    [] OTHER -> 3

\* C13: a step only appends to the report, so the anomalies of an earlier
\* entry precede those of a later one and the end-of-stream anomalies follow
\* them all; the anomalies of one entry come in the order SpikeDetector,
\* StatisticalDetector, BurstPatternDetector, IpFrequencyDetector, one per
\* result of each; the end-of-stream anomalies come in the order
\* FrequencyAnalyzer, PatternAnalyzer, TimeWindowAnalyzer.
ReportOrder ==
  [][/\ SubSeq(report'.m_anomalies, 1, Len(report.m_anomalies)) = report.m_anomalies
     /\ last'.op = "entry" =>
          /\ \A i \in 1..(Len(appended) - 1) :
               detectorRank(appended[i]) <= detectorRank(appended[i + 1])
          /\ \A i \in 1..Len(appended) : detectorRank(appended[i]) # 0
          /\ Cardinality({i \in 1..Len(appended) : detectorRank(appended[i]) = 1})
               = Len(last'.spike)
          /\ Cardinality({i \in 1..Len(appended) : detectorRank(appended[i]) = 2})
               = Len(last'.stat)
          /\ Cardinality({i \in 1..Len(appended) : detectorRank(appended[i]) = 3})
               = Len(last'.burst)
          /\ Cardinality({i \in 1..Len(appended) : detectorRank(appended[i]) = 4})
               = Len(last'.ip)
     /\ last'.op = "finish" =>
          /\ \A i \in 1..(Len(appended) - 1) :
               reviewRank(appended[i]) <= reviewRank(appended[i + 1])
          /\ Cardinality({i \in 1..Len(appended) : reviewRank(appended[i]) = 1})
               = Len(freqDetectAnomalies(freq))
          /\ Cardinality({i \in 1..Len(appended) : reviewRank(appended[i]) = 2})
               = Len(patternDetectAnomalies(pattern))
     /\ pc = "done" => report' = report]_vars

\* the final report holds the anomalies of two detectors for one entry, side
\* by side, and after them those of two end-of-stream reviews
TwoDetectorsThenReviews ==
  /\ pc = "done"
  /\ \E i \in 1..(Len(report.m_anomalies) - 1) :
       /\ report.m_anomalies[i].description.text = "Spike detected"
       /\ report.m_anomalies[i + 1].description.text = "Burst repetition detected"
       /\ \E j \in (i + 2)..(Len(report.m_anomalies) - 1) :
            /\ reviewRank(report.m_anomalies[j]) = 2
            /\ report.m_anomalies[j + 1].description.text
                 \in {"", "Error spike", "Event burst", "Silence detected"}

(***************************************************************************)
(* The parser (SpecParser)                                                 *)
(***************************************************************************)
\* the entry the step just taken parsed and fed to the detectors
lastEntry == parsedEntries[Len(parsedEntries)]

\* the text of an entry's raw line, as a line of input
asLine(rawLine) == Line(0, rawLine, FALSE)

\* C14: when a line parses to an entry e, parsing e's raw line yields an entry
\* with the same timestamp, level, source, message and raw line, for text and
\* for JSON lines.
ParseRoundTrip ==
  last.op = "entry" =>
    /\ parseLineDetailed(last.line).entry = Some(lastEntry)
    /\ parseLineDetailed(asLine(lastEntry.rawLine)).entry = Some(lastEntry)

\* a JSON line was parsed, and then a text line whose raw line is not the
\* line itself: it was indented and ended in a carriage return
IndentedLineParsed ==
  /\ last.op = "entry"
  /\ last.line.lead > 0
  /\ last.line.cr
  /\ asLine(lastEntry.rawLine) # last.line
  /\ Len(parsedEntries) = 2
  /\ Head(parsedEntries[1].rawLine) = "{"

\* C15: every entry the parser returns has a message that is not empty; a
\* text or JSON line whose message body is empty is a parse failure.
MessageNeverEmpty ==
  /\ last.op = "entry" => parseLineDetailed(last.line).entry.v.message # <<>>
  /\ \A i \in 1..Len(parsedEntries) : parsedEntries[i].message # <<>>

\* C16: a line whose timestamp is before 2000-01-01 is a parse failure, so no
\* entry before 2000 reaches the detectors or the range of the analysis.
NoEntryBefore2000 ==
  /\ last.op = "entry" => isReasonableTime(parseLineDetailed(last.line).entry.v.timestamp)
  /\ \A i \in 1..Len(parsedEntries) : isReasonableTime(parsedEntries[i].timestamp)
  /\ haveTimeRange => isReasonableTime(minTs)
  /\ (pc = "done" /\ haveTimeRange) => isReasonableTime(report.m_analysisStart)

\* the line of the step just taken is a text line, not JSON
textLine == trimSv(last.line) # <<>> /\ Head(trimSv(last.line)) # "{"

\* the source a text line names: the token before the first ':' after the
\* timestamp, else the text between the first '[' and ']', else none
namedSource(toks) ==
  LET colons == {i \in 2..Len(toks) : beforeColon(toks[i]).ok}
      brs == {i \in 1..Len(toks) : bracketed(toks[i]).ok}
  IN IF colons # {}
       THEN beforeColon(toks[CHOOSE i \in colons : \A j \in colons : i <= j]).v
     ELSE IF brs # {}
       THEN bracketed(toks[CHOOSE i \in brs : \A j \in brs : i <= j]).v
     ELSE "unknown"

\* C17: the source of an entry parsed from a text line
\* "<date time> <LEVEL> <svc>: <message>" is svc, the token before the first
\* ':' after the timestamp; the bracketed text is used only when there is no
\* such token, and the source is missing only when there is neither.
SourceIsTokenBeforeColon ==
  (last.op = "entry" /\ textLine) => lastEntry.source = namedSource(trimSv(last.line))

\* the level a token names
levelNamed(tok) ==
  levelMap[CHOOSE k \in 1..Len(levelMap) : levelMap[k][1] \in levelWordsIn(tok)][2]

\* the level named by the leftmost level word of a line, Unknown without one
leftmostLevel(toks) ==
  LET at == {i \in 1..Len(toks) : levelWordsIn(toks[i]) # {}}
  IN IF at = {} THEN "Unknown"
     ELSE levelNamed(toks[CHOOSE i \in at : \A j \in at : i <= j])

\* C18: the level of an entry parsed from a text line is the one named by the
\* leftmost level word of the line, and Unknown when there is none; the line
\* "... ERROR db: info missing" has level Error.
LevelIsLeftmostLevelWord ==
  (last.op = "entry" /\ textLine) => lastEntry.level = leftmostLevel(trimSv(last.line))

(***************************************************************************)
(* Rare message hashes                                                     *)
(***************************************************************************)
\* C19: at the end of the stream every message hash counted fewer than
\* m_minOccurrences times has one anomaly of type RarePattern and severity
\* Medium in the report.
RareHashesReported ==
  pc = "done" =>
    \A h \in {k \in DOMAIN freq.m_messageCounts :
                freq.m_messageCounts[k] < m_minOccurrences} :
      Cardinality({i \in anomaliesOfType("RarePattern") :
                     /\ report.m_anomalies[i].severity = "Medium"
                     /\ report.m_anomalies[i].description
                          = [text |-> "Rare message pattern",
                             args |-> <<h, freq.m_messageCounts[h]>>]}) = 1

(***************************************************************************)
(* A shared parser                                                         *)
(***************************************************************************)
\* C20: what the parser returns for a line depends on the line alone: after
\* any calls of parseLineDetailed, addPattern and clearPatterns on it, a
\* parser returns for the line what a newly constructed parser returns.
ParserStateless ==
  (last.op \in {"entry", "malformed"}) =>
    /\ parseLineDetailed(last.line) = parseLineDetailedOn(LogParser, last.line)
    /\ (last.op = "entry") = parseLineOn(LogParser, last.line).ok

(***************************************************************************)
(* The report sinks and the exit code (SpecReport)                         *)
(***************************************************************************)
\* how often an anomaly occurs in a sequence
occurrences(a, as) == Cardinality({i \in 1..Len(as) : as[i] = a})

\* view holds the first anomalies of as in the order severity descending,
\* score descending, window_end descending, description ascending: all of
\* them without a cap, the first maxAnomalies with one
sortedAndCapped(view, as, maxAnomalies) ==
  /\ Len(view) = IF maxAnomalies > 0 THEN Min(maxAnomalies, Len(as)) ELSE Len(as)
  /\ \A i \in 1..Len(view) : occurrences(view[i], view) <= occurrences(view[i], as)
  /\ \A i \in 1..Len(view), j \in 1..Len(view) :
       i < j => ~anomalySeverityComparator(view[j], view[i])
  /\ \A k \in 1..Len(as) :
       occurrences(as[k], view) < occurrences(as[k], as)
         => \A i \in 1..Len(view) : ~anomalySeverityComparator(as[k], view[i])

\* C21: each of ReportGenerator, JsonReporter and CsvReporter renders the
\* report's anomalies sorted by severity descending, score descending,
\* window_end descending and description ascending, cut to the first
\* max_anomalies when a cap is set; anomalies equal in the first three keys
\* come in ascending order of their descriptions.
SinksRenderSorted ==
  /\ last.op = "json" =>
       sortedAndCapped(sinks.json.m_anomalies, report.m_anomalies,
                       sinks.json.m_maxAnomalies)
  /\ last.op = "csv" =>
       sortedAndCapped(sinks.csv.m_anomalies, report.m_anomalies,
                       sinks.csv.m_maxAnomalies)
  /\ last.op = "exit" =>
       sortedAndCapped(sinks.gen.m_sortedAnomalies, report.m_anomalies,
                       sinks.gen.m_maxAnomalies)

\* C22: after a completed run main() returns 0 when the report holds no
\* anomaly and otherwise the smaller of the number of anomalies in the report
\* and INT_MAX, whatever a sink's cap left of them; before that it has
\* returned nothing.
ExitCodeIsAnomalyCount ==
  /\ pc = "exited" =>
       exitCode = IF Len(report.m_anomalies) = 0 THEN 0
                  ELSE Min(Len(report.m_anomalies), IntMax)
  /\ pc # "exited" => exitCode = -1

\* main() has returned with more anomalies in the report than the capped view
\* of the summary generator holds
ExitedWithCappedView ==
  /\ pc = "exited"
  /\ sinks.gen.m_maxAnomalies > 0
  /\ Len(sinks.gen.m_sortedAnomalies) = sinks.gen.m_maxAnomalies
  /\ Len(report.m_anomalies) > sinks.gen.m_maxAnomalies
  /\ exitCode > Len(sinks.gen.m_sortedAnomalies)

(***************************************************************************)
(* Truncation after a burst (SpecBurst)                                    *)
(***************************************************************************)
\* C23: after every processEntry call that returns a burst, the deque of the
\* entry's signature holds max(1, m_minRepeats / 2) entries, the most recent
\* ones, also when the burst was returned at exactly m_minRepeats entries.
DequeTruncatedAfterBurst ==
  (last.op = "entry" /\ last.burst # <<>>) =>
    /\ Len(burstDetector[signature(lastEntry)]) = Max(1, m_minRepeats \div 2)
    /\ burstDetector[signature(lastEntry)][Max(1, m_minRepeats \div 2)].second = lastEntry

(***************************************************************************)
(* Buckets of TimeWindowAnalyzer (SpecWindow, SpecWindowSize)              *)
(***************************************************************************)
\* the current bucket as addEntry finds it: the first entry places it
bucketBefore(ts) ==
  IF timeWindow.m_initialized THEN timeWindow.m_currentWindow
  ELSE TimeBucket(ts, ts + timeWindow.m_windowSize)

\* how many window steps lie between the bucket and the one that holds ts
stepsTo(ts) ==
  IF ts < bucketBefore(ts).end THEN 0
  ELSE (ts - bucketBefore(ts).end) \div timeWindow.m_windowSize + 1

\* the buckets one addEntry call appends to the history: the current one as
\* it is, then one empty bucket per further step
passedBuckets(ts) ==
  [i \in 1..stepsTo(ts) |->
     IF i = 1 THEN bucketBefore(ts)
     ELSE TimeBucket(bucketBefore(ts).start + (i - 1) * timeWindow.m_windowSize,
                     bucketBefore(ts).start + i * timeWindow.m_windowSize)]

\* the event of an entry
eventOf(entry) ==
  [timestamp |-> entry.timestamp, level |-> entry.level, source |-> entry.source]

\* C24: addEntry with a timestamp ts not before the start of the current
\* bucket appends the current bucket, and an empty bucket for every further
\* step, to the history and moves the current bucket one m_windowSize at a
\* time until ts is below its end; afterwards start <= ts < end, the entry is
\* in the current bucket, the start is the first parsed timestamp plus a
\* whole number of window sizes, and the history holds the last buckets, at
\* most m_maxHistoryWindows of them.
BucketsAdvance ==
  [][(/\ last'.op = "entry"
      /\ parsedCount' <= m_sequenceWindowSize
      /\ lastEntry'.timestamp >= bucketBefore(lastEntry'.timestamp).start) =>
       \E ts \in {lastEntry'.timestamp} :
       \E cur \in {timeWindow'.m_currentWindow} :
         /\ cur.start = bucketBefore(ts).start + stepsTo(ts) * timeWindow.m_windowSize
         /\ cur.end = cur.start + timeWindow.m_windowSize
         /\ cur.start <= ts /\ ts < cur.end
         /\ cur.events = (IF stepsTo(ts) = 0 THEN bucketBefore(ts).events ELSE <<>>)
                           \o <<eventOf(lastEntry')>>
         /\ (cur.start - parsedEntries'[1].timestamp) % timeWindow.m_windowSize = 0
         /\ timeWindow'.m_windowHistory
              = LastN(timeWindow.m_windowHistory \o passedBuckets(ts), m_maxHistoryWindows)
         /\ Len(timeWindow'.m_windowHistory) <= m_maxHistoryWindows]_vars

\* the history is full, its oldest buckets were dropped, it holds empty
\* buckets and buckets with events, and the current bucket holds the entry
\* just read
HistoryFullAndOldestDropped ==
  /\ last.op = "entry"
  /\ Len(timeWindow.m_windowHistory) = m_maxHistoryWindows
  /\ timeWindow.m_windowHistory[1].start > parsedEntries[1].timestamp
  /\ \E i \in 1..m_maxHistoryWindows : timeWindow.m_windowHistory[i].events = <<>>
  /\ \E i \in 1..m_maxHistoryWindows : timeWindow.m_windowHistory[i].events # <<>>
  /\ timeWindow.m_currentWindow.events = <<eventOf(lastEntry)>>

\* C25: addEntry with a timestamp before the start of the current bucket
\* leaves the current bucket and the history as they are, while the entry is
\* counted in the report's statistics and is processed by FrequencyAnalyzer,
\* PatternAnalyzer, SpikeDetector, StatisticalDetector, BurstPatternDetector
\* and IpFrequencyDetector.
LateArrivalDropped ==
  [][(/\ last'.op = "entry"
      /\ timeWindow.m_initialized
      /\ lastEntry'.timestamp < timeWindow.m_currentWindow.start) =>
       \E e \in {lastEntry'} :
         /\ timeWindow' = timeWindow
         /\ parsedCount' = parsedCount + 1
         /\ levelCount(report', e.level) = levelCount(report, e.level) + 1
         /\ Get(report'.m_sourceStats, e.source, SourceStats).totalEvents
              = Get(report.m_sourceStats, e.source, SourceStats).totalEvents + 1
         /\ freq'.m_sourceCounts[e.source] = Get(freq.m_sourceCounts, e.source, 0) + 1
         /\ freq'.m_messageCounts[hashMessage(e.message)]
              = Get(freq.m_messageCounts, hashMessage(e.message), 0) + 1
         /\ pattern'.m_recentEvents = LastN(Append(pattern.m_recentEvents, e),
                                            m_sequenceWindowSize)
         /\ spikeDetector'[e.source].samples
              = LastN(Append(Get(spikeDetector, e.source, SourceState).samples, e),
                      m_maxSampleEvents)
         /\ statDetector'.m_globalStats.count = statDetector.m_globalStats.count + 1
         /\ statDetector'.m_sourceStats[e.source].count
              = Get(statDetector.m_sourceStats, e.source, OnlineStats).count + 1
         /\ \E k \in 1..Len(burstDetector'[signature(e)]) :
              burstDetector'[signature(e)][k].second = e
         /\ extractIp(e.message).ok =>
              ipDetector'[extractIp(e.message).v]
                = Get(ipDetector, extractIp(e.message).v, 0) + 1]_vars

\* an entry older than the current bucket was read after the bucket had moved
LateArrivalRead ==
  /\ last.op = "entry"
  /\ Len(parsedEntries) >= 2
  /\ lastEntry.timestamp < timeWindow.m_currentWindow.start
  /\ timeWindow.m_windowHistory # <<>>
  /\ extractIp(lastEntry.message).ok

\* C26: addEntry returns for every entry and every window size setWindowSize
\* accepts, a size of zero included: the loop that advances the bucket does
\* not go on for ever, and the pipeline never stays inside a detector.
AddEntryReturns == pc # "stalled"

(***************************************************************************)
(* SpikeDetector (SpecSpike, SpecWindow)                                   *)
(***************************************************************************)
\* the short and the long deque of the source of the entry just processed
shortDeque == spikeDetector[lastEntry.source].recentEvents
longDeque == spikeDetector[lastEntry.source].baselineEvents

\* (|short| / m_shortWindow) / (|long| / m_baselineWindow) > m_spikeThreshold
ratioAboveThreshold ==
  Len(shortDeque) * m_baselineWindow > m_spikeThreshold * Len(longDeque) * m_shortWindow

\* C27: processEntry returns a spike for an entry exactly when, after the
\* entry was added and the deques were evicted, the ratio of the short rate
\* to the long rate is above m_spikeThreshold, the short deque holds at
\* least 5 and the long deque at least 10 timestamps; for an entry without a
\* source it returns nothing and keeps no state.
SpikeIffAllGuards ==
  last.op = "entry" =>
    /\ Len(last.spike) <= 1
    /\ lastEntry.source = "" => (last.spike = <<>> /\ "" \notin DOMAIN spikeDetector)
    /\ lastEntry.source # "" =>
         ((last.spike # <<>>) <=>
            (ratioAboveThreshold /\ Len(shortDeque) >= 5 /\ Len(longDeque) >= 10))

\* a spike was returned over a baseline that is longer than the short
\* window, after an entry without a source
SpikeOverBaseline ==
  /\ last.op = "entry"
  /\ lastEntry.source # ""
  /\ last.spike # <<>>
  /\ Len(longDeque) > Len(shortDeque)
  /\ "" \in DOMAIN freq.m_sourceCounts

\* C28: after processEntry for an entry with timestamp t, in any order of
\* the timestamps, the source's short deque holds no timestamp older than
\* m_shortWindow and its long deque none older than m_baselineWindow.
DequesHoldNoOldTimestamp ==
  (last.op = "entry" /\ lastEntry.source # "") =>
    /\ \A i \in 1..Len(shortDeque) : lastEntry.timestamp - shortDeque[i] <= m_shortWindow
    /\ \A i \in 1..Len(longDeque) : lastEntry.timestamp - longDeque[i] <= m_baselineWindow

(***************************************************************************)
(* StatisticalDetector (SpecStat)                                          *)
(***************************************************************************)
\* the statistics of the source of the entry just processed, the entry's
\* rate included
statsOfSource == statDetector.m_sourceStats[lastEntry.source]

\* all rate samples of the source are equal: their standard deviation is zero
zeroDeviation ==
  \A i \in 1..Len(statsOfSource.samples) :
    statsOfSource.samples[i].num * statsOfSource.samples[1].den
      = statsOfSource.samples[1].num * statsOfSource.samples[i].den

\* C29: processEntry returns no outlier for a source during the source's
\* first 9 entries and none while the source's rate samples have a standard
\* deviation of zero; it returns one exactly when the z-score of the rate,
\* taken against the statistics that already include that rate, is beyond
\* m_zScoreThreshold in either direction.
OutlierNeedsTenSamplesAndDeviation ==
  last.op = "entry" =>
    /\ Len(last.stat) <= 1
    /\ statsOfSource.count = Len(statsOfSource.samples)
    /\ statsOfSource.count < 10 => last.stat = <<>>
    /\ zeroDeviation => last.stat = <<>>
    /\ (last.stat # <<>>) <=> zScoreExceeds(statsOfSource)
    /\ last.stat # <<>> => last.stat[1].count = statsOfSource.count

\* an outlier was returned for a source that had ten or more equal rate
\* samples before
OutlierAfterSteadyRate ==
  /\ last.op = "entry"
  /\ last.stat # <<>>
  /\ statsOfSource.count >= 11
  /\ \A i \in 1..10 : statsOfSource.samples[i] = statsOfSource.samples[1]

(***************************************************************************)
(* PatternAnalyzer (SpecPattern)                                           *)
(***************************************************************************)
\* the key of the contiguous sub-sequence of length len that starts after
\* start entries of the deque
keyAt(deque, len, start) ==
  sequenceToSignature([i \in 1..len |-> createSignature(deque[start + i])])

\* the places of the deque where a sub-sequence of two or more entries has
\* the key sig
placesOf(deque, sig) ==
  {place \in (2..Len(deque)) \X (0..Len(deque)) :
     /\ place[1] + place[2] <= Len(deque)
     /\ keyAt(deque, place[1], place[2]) = sig}

\* C30: after addEntry the deque holds the last m_sequenceWindowSize entries
\* added and no more; the call adds to the frequency counter of every key as
\* many as there are places in the deque where a sub-sequence of two or more
\* entries has that key, and to no other counter; no pattern keeps more than
\* m_maxPatternExamples examples.
AddEntrySlidesAndCounts ==
  [][last'.op = "entry" =>
       /\ Len(pattern'.m_recentEvents) <= pattern'.m_sequenceWindowSize
       /\ pattern'.m_recentEvents
            = LastN(Append(pattern.m_recentEvents, parseLineDetailed(last'.line).entry.v),
                    pattern'.m_sequenceWindowSize)
       /\ DOMAIN pattern'.m_patterns = DOMAIN pattern'.m_sequenceCounts
       /\ \A sig \in DOMAIN pattern'.m_sequenceCounts :
            /\ pattern'.m_sequenceCounts[sig]
                 = Get(pattern.m_sequenceCounts, sig, 0)
                     + Cardinality(placesOf(pattern'.m_recentEvents, sig))
            /\ pattern'.m_patterns[sig].frequency
                 = Get(pattern.m_patterns, sig, Pattern).frequency
                     + Cardinality(placesOf(pattern'.m_recentEvents, sig))
            /\ Len(pattern'.m_patterns[sig].examples) <= pattern'.m_maxPatternExamples
  ]_vars

(***************************************************************************)
(* RuleBasedDetector (SpecRules)                                           *)
(***************************************************************************)
\* C31: every id of the id-to-index map points at a compiled rule whose
\* config.id is that id, so that getRule(id) returns the configuration of
\* rule id.
IndexPointsAtItsRule ==
  \A id \in DOMAIN ruleDetector.m_ruleIdIndex :
    /\ ruleDetector.m_ruleIdIndex[id] < Len(ruleDetector.m_compiledRules)
    /\ ruleDetector.m_compiledRules[ruleDetector.m_ruleIdIndex[id] + 1].config.id = id
    /\ getRule(ruleDetector, id).v.id = id

\* C32: checkEntry returns the matches of the entry against the rules that
\* are enabled at the time of the call, and the cache never holds more than
\* m_maxCacheSize entries.
CheckEntrySeesCurrentRules ==
  /\ Cardinality(DOMAIN ruleDetector.m_cache) <= ruleDetector.m_maxCacheSize
  /\ last.op = "entry" => last.rule = evaluated(ruleDetector, lastEntry)

BurstDequeAtMostMinRepeats ==
  \A key \in DOMAIN burstDetector : Len(burstDetector[key]) <= Max(m_minRepeats, 1)

\* a deque is as long as the bound allows: the entry that returned the first
\* burst of its signature left m_minRepeats entries
BurstDequeAtItsBound ==
  /\ last.op = "entry"
  /\ last.burst # <<>>
  /\ \E key \in DOMAIN burstDetector : Len(burstDetector[key]) = Max(m_minRepeats, 1)

RateSeverityIsLargest ==
  /\ \A i \in 1..Len(last.spike) : last.spike[i].severity = Frac(1, 1)
  /\ \A i \in 1..Len(last.stat) : last.stat[i].severity = Frac(1, 1)
  /\ \A i \in 1..Len(report.m_anomalies) :
       /\ (report.m_anomalies[i].type = "FrequencySpike"
             /\ report.m_anomalies[i].description.text = "Spike detected")
            => report.m_anomalies[i].severity = "Critical"
       /\ report.m_anomalies[i].type = "StatisticalOutlier"
            => report.m_anomalies[i].severity = "High"

\* the report holds an outlier of the StatisticalDetector and the entry just
\* read returned a spike
SpikeAfterOutlier ==
  /\ last.op = "entry"
  /\ last.spike # <<>>
  /\ anomaliesOfType("StatisticalOutlier") # {}

(***************************************************************************)
(* The source spike of the FrequencyAnalyzer (SpecSpike)                   *)
(***************************************************************************)
\* C36: the history of a source holds its last (at most 10) running counts,
\* so its moving average is (count + 1) / 2 up to 10 entries and count - 4.5
\* afterwards; the count never exceeds m_spikeMultiplier times the average,
\* and detectAnomalies returns rare-message messages only.
NoSourceSpike ==
  /\ \A source \in DOMAIN freq.m_sourceCounts :
       \E count \in {freq.m_sourceCounts[source]},
          history \in {freq.m_sourceHistory[source]},
          avg \in {freq.m_sourceMovingAvg[source]} :
         /\ Len(history) = Min(count, 10)
         /\ \A i \in 1..Len(history) : history[i] = count - Len(history) + i
         /\ count <= 10 => 2 * avg.num = (count + 1) * avg.den
         /\ count > 10 => 2 * avg.num = (2 * count - 9) * avg.den
         /\ ~sourceSpikes(freq, source)
  /\ \A i \in 1..Len(freqDetectAnomalies(freq)) :
       freqDetectAnomalies(freq)[i].text = "Rare message pattern"
  /\ pc = "done" =>
       \A i \in anomaliesOfType("FrequencySpike") :
         report.m_anomalies[i].description.text # "Source spike"

\* the file is read, one source has more than 10 entries and the report has
\* a rare-message anomaly
FinishedWithBusySource ==
  /\ pc = "done"
  /\ \E source \in DOMAIN freq.m_sourceCounts : freq.m_sourceCounts[source] > 10
  /\ \E i \in anomaliesOfType("FrequencySpike") :
       report.m_anomalies[i].description.text = "Rare message pattern"

(***************************************************************************)
(* The sequence counts at the end of the stream (SpecSequence)             *)
(***************************************************************************)
\* the occurrences in the stream of the key sig that fit the window: pairs
\* of a length and the number of entries before the occurrence
occurrencesOf(stream, sig, window) ==
  {place \in placesOf(stream, sig) : place[1] <= window}

\* the keys of the stream
keysOf(stream, window) ==
  {keyAt(stream, place[1], place[2]) :
     place \in {pl \in (2..Min(window, Len(stream))) \X (0..Len(stream)) :
                  pl[1] + pl[2] <= Len(stream)}}

windowOf(stream, i) ==
  (stream[i].timestamp - stream[1].timestamp) \div timeWindow.m_windowSize

\* the error rate of window k of the stream is above m_errorRateThreshold
exceededIn(stream, k) ==
  \E inside \in {{i \in 1..Len(stream) : windowOf(stream, i) = k}} :
    Cardinality({i \in inside : isErrorLike(stream[i].level)}) * m_errorRateThresholdDen
      > m_errorRateThresholdNum * Cardinality(inside)

\* the report has the error spike of window k of the stream
reportedSpikeOf(stream, k) ==
  \E i \in 1..Len(report.m_anomalies) :
    /\ report.m_anomalies[i].description.text = "Error spike"
    /\ report.m_anomalies[i].windowStart
         = stream[1].timestamp + k * timeWindow.m_windowSize

====
